---- MODULE Spec2Model ----
(***************************************************************************)
(* Campaign-performance dashboard: the aggregation routines of utils.py    *)
(* and the filter stage of app.py.                                         *)
(*                                                                         *)
(* Units.  Money is an integer number of cents; win_price is a CPM in      *)
(* cents.  click_cost is in hundredths of a cent (four decimals).          *)
(* A timestamp is the ordinal of its calendar day, day 1 = 1 January of a  *)
(* 365-day year; the time of day is never read by the engine.              *)
(* campaign_id, advertiser_id and publisher_id are the numeric suffixes of *)
(* 'CAMP_000001', 'ADV_0001', 'PUB_0001'.                                  *)
(* A float column that can hold inf or NaN is a tagged pair, see Num.      *)
(***************************************************************************)
EXTENDS Integers, Sequences, FiniteSets, TLC

VARIABLES
    advertisers_df,        \* source tables (app.py 77-82)
    campaigns_df,
    impressions_df,
    clicks_df,
    conversions_df,
    start_date,            \* sidebar selections (app.py 106-140)
    end_date,
    selected_advertisers,
    selected_status,
    selected_devices,
    page,
    filtered_impressions,  \* the tables handed to the engine (app.py 143-164)
    filtered_campaigns,
    filtered_clicks,
    filtered_conversions,
    metrics_df,            \* derived tables, one per engine function
    revenue_data,
    margin_data,
    pacing_data,
    receivables,
    payables,
    daily_data,
    cash_flow,             \* the Monthly Cash Flow trend of the cash flow page (app.py 478-486)
    total_revenue,         \* the Total Revenue metric of the revenue page (app.py 270)
    cache,                 \* the st.cache_data entry of load_campaign_data (app.py 47)
    generated,             \* invocations of generate_campaign_data so far
    runs,                  \* runs of the script so far in this process
    returned,              \* what generate_campaign_data returned, process by process
    environ,               \* os.environ of the entrypoint process
    steps,                 \* the steps entrypoint.main has performed
    exit_status,           \* the exit status of the entrypoint process
    current_date,          \* the wall clock, datetime.now().date()
    pc

src == <<advertisers_df, campaigns_df, impressions_df, clicks_df, conversions_df>>
sel == <<start_date, end_date, selected_advertisers, selected_status, selected_devices,
        page>>
args == <<filtered_impressions, filtered_campaigns, filtered_clicks, filtered_conversions>>
out == <<metrics_df, revenue_data, margin_data, pacing_data, receivables, payables, daily_data, cash_flow,
        cash_flow>>
session == <<cache, generated, runs>>
host == <<returned, environ, steps, exit_status>>
vars == <<src, sel, args, out, total_revenue, session, host, current_date, pc>>

(***************************************************************************)
(* Bounds of the model.                                                    *)
(***************************************************************************)
MaxImpressions == 2
MaxClicks == 1
MaxConversions == 1

(***************************************************************************)
(* Arithmetic.                                                             *)
(***************************************************************************)
\* numpy's round: to the nearest, a tie to the even neighbour.  n / d, d > 0.
RoundDiv(n, d) ==
    LET q == n \div d
        r == n % d
    IN  IF 2 * r < d THEN q
        ELSE IF 2 * r > d THEN q + 1
        ELSE IF q % 2 = 0 THEN q ELSE q + 1

\* IEEE results of a float division: a finite value, inf, or NaN.
Num(x) == <<"num", x>>
Inf == <<"inf", 0>>
NaN == <<"nan", 0>>
IsNum(v) == v[1] = "num"

\* The quotient cut off after its last kept decimal instead of rounded.
FloatDivTruncated(n, d) ==
    IF d = 0 THEN (IF n = 0 THEN NaN ELSE Inf) ELSE Num(n \div d)

\* round(n / d * scale, k) as numpy computes it; a zero divisor gives inf or NaN.
FloatDiv(n, d) ==
    IF d = 0 THEN (IF n = 0 THEN NaN ELSE Inf) ELSE Num(RoundDiv(n, d))

\* np.where(cond, x, 0)
WhereUnguarded(cond, x) == x
Where(cond, x) == IF cond THEN x ELSE Num(0)

RECURSIVE SeqSum(_)
SeqSum(s) == IF s = <<>> THEN 0 ELSE Head(s) + SeqSum(Tail(s))

Column(df, col) == [i \in 1..Len(df) |-> df[i][col]]
Values(df, col) == {df[i][col] : i \in 1..Len(df)}

Min(S) == CHOOSE x \in S : \A y \in S : x <= y
Max(S) == CHOOSE x \in S : \A y \in S : x >= y

\* The keys of a groupby, ascending.
RECURSIVE Sorted(_)
Sorted(S) == IF S = {} THEN <<>> ELSE <<Min(S)>> \o Sorted(S \ {Min(S)})

\* DataFrame.set_index(key) lookups of a left join: the rows of df with that key.
Rows(df, key, k) == SelectSeq(df, LAMBDA r : r[key] = k)

\* impressions_df[impressions_df['impression_outcome'] == 'won']
WonImpressions(impressions_df_) ==
    SelectSeq(impressions_df_, LAMBDA r : r.impression_outcome = "won")

\* (win_price / 1000).round(2): the spend of one impression, in cents.
ImpressionSpend(win_price) == RoundDiv(win_price, 1000)

(***************************************************************************)
(* Record constructors of the input tables.                                *)
(***************************************************************************)
Advertiser(id, name, industry) ==
    [advertiser_id |-> id, advertiser_name |-> name, industry |-> industry]

Campaign(id, adv, start, end, budget, status) ==
    [campaign_id |-> id, advertiser_id |-> adv, start_date |-> start,
     end_date |-> end, budget_total |-> budget, status |-> status]

Impression(cid, day, dev, auc, geo, pub, price, outcome) ==
    [campaign_id |-> cid, timestamp |-> day, device_type |-> dev,
     auction_type |-> auc, geo_country |-> geo, publisher_id |-> pub,
     win_price |-> price, impression_outcome |-> outcome]

Click(id, cid, day, dev, cost) ==
    [click_id |-> id, campaign_id |-> cid, timestamp |-> day,
     device_type |-> dev, click_cost |-> cost]

Conversion(id, cid, day, value) ==
    [conversion_id |-> id, campaign_id |-> cid, timestamp |-> day,
     conversion_value |-> value]

(***************************************************************************)
(* calculate_pacing_analysis (utils.py 123-174).                           *)
(***************************************************************************)
\* A fraction of one taken for a percentage.
PctOfOne(num, den) == <<num \div 100, den>>

\* A percentage before rounding, as the exact fraction num / den, den > 0.
Pct(num, den) == <<num, den>>

\* budget_spent_pct > time_elapsed_pct + 10, and < time_elapsed_pct - 10.
PacingStatusNonStrict(b, t) ==
    IF b[1] * t[2] >= (t[1] + 10 * t[2]) * b[2] THEN "ahead"
    ELSE IF b[1] * t[2] <= (t[1] - 10 * t[2]) * b[2] THEN "behind"
    ELSE "on_pace"
\* The classification at five points instead of ten.
PacingStatusFivePoints(b, t) ==
    IF b[1] * t[2] > (t[1] + 5 * t[2]) * b[2] THEN "ahead"
    ELSE IF b[1] * t[2] < (t[1] - 5 * t[2]) * b[2] THEN "behind"
    ELSE "on_pace"
PacingStatus(b, t) ==
    IF b[1] * t[2] > (t[1] + 10 * t[2]) * b[2] THEN "ahead"
    ELSE IF b[1] * t[2] < (t[1] - 10 * t[2]) * b[2] THEN "behind"
    ELSE "on_pace"

\* The row with the forecast taken from the rounded daily average.
PacingRowRoundedAverage(campaign, campaign_impressions) ==
    LET spend == [i \in 1..Len(campaign_impressions) |->
                    ImpressionSpend(campaign_impressions[i].win_price)]
        total_spend == SeqSum(spend)
        campaign_days == (campaign.end_date - campaign.start_date) + 1
        days_elapsed == Cardinality(Values(campaign_impressions, "timestamp"))
        budget_spent_pct == IF campaign.budget_total > 0
                            THEN Pct(total_spend * 100, campaign.budget_total)
                            ELSE Pct(0, 1)
        time_elapsed_pct == IF campaign_days > 0
                            THEN Pct(days_elapsed * 100, campaign_days)
                            ELSE Pct(0, 1)
    IN  [campaign_id |-> campaign.campaign_id,
         budget_total |-> campaign.budget_total,
         total_spend |-> total_spend,
         avg_daily_spend |-> IF days_elapsed > 0
                             THEN RoundDiv(total_spend, days_elapsed) ELSE 0,
         forecasted_spend |-> IF days_elapsed > 0
                              THEN RoundDiv(total_spend, days_elapsed) * campaign_days
                              ELSE 0,
         budget_spent_raw |-> budget_spent_pct,
         time_elapsed_raw |-> time_elapsed_pct,
         budget_spent_pct |-> RoundDiv(budget_spent_pct[1] * 10, budget_spent_pct[2]),
         time_elapsed_pct |-> RoundDiv(time_elapsed_pct[1] * 10, time_elapsed_pct[2]),
         pacing_status |-> PacingStatus(budget_spent_pct, time_elapsed_pct),
         days_active |-> days_elapsed,
         total_days |-> campaign_days]

PacingRow(campaign, campaign_impressions) ==
    LET spend == [i \in 1..Len(campaign_impressions) |->
                    ImpressionSpend(campaign_impressions[i].win_price)]
        total_spend == SeqSum(spend)
        campaign_days == (campaign.end_date - campaign.start_date) + 1
        days_elapsed == Cardinality(Values(campaign_impressions, "timestamp"))
        budget_spent_pct == IF campaign.budget_total > 0
                            THEN Pct(total_spend * 100, campaign.budget_total)
                            ELSE Pct(0, 1)
        time_elapsed_pct == IF campaign_days > 0
                            THEN Pct(days_elapsed * 100, campaign_days)
                            ELSE Pct(0, 1)
    IN  [campaign_id |-> campaign.campaign_id,
         budget_total |-> campaign.budget_total,
         total_spend |-> total_spend,
         avg_daily_spend |-> IF days_elapsed > 0
                             THEN RoundDiv(total_spend, days_elapsed) ELSE 0,
         forecasted_spend |-> IF days_elapsed > 0
                              THEN RoundDiv(total_spend * campaign_days, days_elapsed)
                              ELSE 0,
         budget_spent_raw |-> budget_spent_pct,
         time_elapsed_raw |-> time_elapsed_pct,
         budget_spent_pct |-> RoundDiv(budget_spent_pct[1] * 10, budget_spent_pct[2]),
         time_elapsed_pct |-> RoundDiv(time_elapsed_pct[1] * 10, time_elapsed_pct[2]),
         pacing_status |-> PacingStatus(budget_spent_pct, time_elapsed_pct),
         days_active |-> days_elapsed,
         total_days |-> campaign_days]

RECURSIVE PacingLoopNoSkip(_, _)
PacingLoopNoSkip(won, campaigns) ==
    IF campaigns = <<>> THEN <<>>
    ELSE <<PacingRow(Head(campaigns),
                     Rows(won, "campaign_id", Head(campaigns).campaign_id))>>
         \o PacingLoopNoSkip(won, Tail(campaigns))

RECURSIVE PacingLoop(_, _)
PacingLoop(won, campaigns) ==
    IF campaigns = <<>> THEN <<>>
    ELSE LET campaign == Head(campaigns)
             campaign_impressions == Rows(won, "campaign_id", campaign.campaign_id)
         IN  (IF Len(campaign_impressions) = 0 THEN <<>>
              ELSE <<PacingRow(campaign, campaign_impressions)>>)
             \o PacingLoop(won, Tail(campaigns))

PacingOfAllImpressions(impressions_df_, campaigns_df_) ==
    PacingLoop(impressions_df_, campaigns_df_)
calculate_pacing_analysis(impressions_df_, campaigns_df_) ==
    PacingLoop(WonImpressions(impressions_df_), campaigns_df_)

(***************************************************************************)
(* calculate_basic_metrics (utils.py 8-58).                                *)
(***************************************************************************)
\* The batch-level spend of a campaign group: the summed CPM times the number
\* of impressions, over 1000, rounded to cents.
GroupSpendPerRow(group) ==
    SeqSum([i \in 1..Len(group) |-> ImpressionSpend(group[i].win_price)])
GroupSpend(group) ==
    RoundDiv(SeqSum(Column(group, "win_price")) * Len(group), 1000)

\* The group with the mean win price reported as its ecpm.
ImpressionMetricsMeanEcpm(cid, group) ==
    [campaign_id |-> cid,
     total_spend_raw |-> SeqSum(Column(group, "win_price")),
     avg_cpm |-> RoundDiv(SeqSum(Column(group, "win_price")), Len(group)),
     impressions_served |-> Len(group),
     first_impression |-> Min(Values(group, "timestamp")),
     last_impression |-> Max(Values(group, "timestamp")),
     spend |-> GroupSpend(group),
     ecpm |-> RoundDiv(SeqSum(Column(group, "win_price")), Len(group))]

\* One group of won_impressions.groupby('campaign_id').agg(...), with spend and ecpm.
ImpressionMetrics(cid, group) ==
    [campaign_id |-> cid,
     total_spend_raw |-> SeqSum(Column(group, "win_price")),
     avg_cpm |-> RoundDiv(SeqSum(Column(group, "win_price")), Len(group)),
     impressions_served |-> Len(group),
     first_impression |-> Min(Values(group, "timestamp")),
     last_impression |-> Max(Values(group, "timestamp")),
     spend |-> GroupSpend(group),
     ecpm |-> RoundDiv(GroupSpend(group) * 1000, Len(group))]

\* The click and conversion aggregates, left-joined; a campaign without
\* clicks or conversions gets 0 (fillna).
ClickMetrics(cid, clicks) ==
    LET group == Rows(clicks, "campaign_id", cid)
    IN  [clicks |-> Len(group),
         click_spend |-> RoundDiv(SeqSum(Column(group, "click_cost")), 100)]

ConversionMetrics(cid, conversions) ==
    LET group == Rows(conversions, "campaign_id", cid)
    IN  [conversions |-> Len(group),
         conversion_value |-> SeqSum(Column(group, "conversion_value"))]

\* ctr, cpc, cpa, roas, conversion_rate.  ctr and conversion_rate are
\* percentages in thousandths, cpc and cpa cents, roas hundredths.
DerivedMetrics(m) ==
    [ctr |-> FloatDiv(m.clicks * 100 * 1000, m.impressions_served),
     cpc |-> Where(m.clicks > 0, FloatDiv(m.spend, m.clicks)),
     cpa |-> Where(m.conversions > 0, FloatDiv(m.spend, m.conversions)),
     roas |-> Where(m.spend > 0, FloatDiv(m.conversion_value * 100, m.spend)),
     conversion_rate |-> Where(m.clicks > 0,
                               FloatDiv(m.conversions * 100 * 1000, m.clicks))]

\* metrics_df.join(campaigns_df.set_index('campaign_id')[...]): a left join.
CampaignInfo(c) ==
    [advertiser_id |-> Num(c.advertiser_id), budget_total |-> Num(c.budget_total),
     status |-> c.status]
NoCampaignInfo == [advertiser_id |-> NaN, budget_total |-> NaN, status |-> "NaN"]

Only(rec, cols) == [k \in cols |-> rec[k]]
MetricsInfoColumns == {"advertiser_id", "budget_total", "status"}
MarginInfoColumns == {"advertiser_id"}

\* The join as an inner join: a row without its campaign is dropped.
JoinCampaignInfoInner(row, campaigns, cols) ==
    LET found == Rows(campaigns, "campaign_id", row.campaign_id)
    IN  [i \in 1..Len(found) |-> row @@ Only(CampaignInfo(found[i]), cols)]

JoinCampaignInfo(row, campaigns, cols) ==
    LET found == Rows(campaigns, "campaign_id", row.campaign_id)
    IN  IF found = <<>> THEN <<row @@ Only(NoCampaignInfo, cols)>>
        ELSE [i \in 1..Len(found) |-> row @@ Only(CampaignInfo(found[i]), cols)]

MetricsRow(cid, won, clicks, conversions) ==
    LET m == ImpressionMetrics(cid, Rows(won, "campaign_id", cid))
             @@ ClickMetrics(cid, clicks) @@ ConversionMetrics(cid, conversions)
    IN  m @@ DerivedMetrics(m)

RECURSIVE MetricsRows(_, _, _, _, _)
MetricsRows(keys, won, clicks, conversions, campaigns) ==
    IF keys = <<>> THEN <<>>
    ELSE JoinCampaignInfo(MetricsRow(Head(keys), won, clicks, conversions), campaigns,
                          MetricsInfoColumns)
         \o MetricsRows(Tail(keys), won, clicks, conversions, campaigns)

calculate_basic_metrics(impressions_df_, clicks_df_, conversions_df_, campaigns_df_) ==
    LET won_impressions == WonImpressions(impressions_df_)
    IN  MetricsRows(Sorted(Values(won_impressions, "campaign_id")), won_impressions,
                    clicks_df_, conversions_df_, campaigns_df_)

(***************************************************************************)
(* calculate_margin_analysis (utils.py 93-121).                            *)
(***************************************************************************)
\* np.random.uniform(0.7, 0.8, n): n factors, here in thousandths.
UniformFactors == {700, 750, 799}
UniformDrawsWide(n) == [1..n -> UniformFactors \cup {900}]
UniformDraws(n) == [1..n -> UniformFactors]

\* A share of 110% to 120% of the amount.
ShareAbove(amount, factor) == RoundDiv(amount * (factor + 400), 1000)

\* (amount * factor).round(2)
Share(amount, factor) == RoundDiv(amount * factor, 1000)

\* The four columns added to one won impression; margin_pct in hundredths.
MarginColumns(r, factor) ==
    LET buy_side_cost == Share(r.win_price, factor)
        sell_side_revenue == r.win_price
        margin == sell_side_revenue - buy_side_cost
    IN  [campaign_id |-> r.campaign_id,
         win_price |-> r.win_price,
         buy_side_cost |-> buy_side_cost,
         sell_side_revenue |-> sell_side_revenue,
         margin |-> margin,
         margin_pct |-> FloatDiv(margin * 100 * 100, sell_side_revenue)]

\* Series.mean() skips NaN; the mean of nothing is NaN.
MeanPct(col) ==
    LET finite == SelectSeq(col, LAMBDA v : IsNum(v))
    IN  FloatDiv(SeqSum([i \in 1..Len(finite) |-> finite[i][2]]), Len(finite))

MarginRow(cid, group) ==
    [campaign_id |-> cid,
     total_buy_cost |-> SeqSum(Column(group, "buy_side_cost")),
     total_sell_revenue |-> SeqSum(Column(group, "sell_side_revenue")),
     total_margin |-> SeqSum(Column(group, "margin")),
     avg_margin_pct |-> MeanPct(Column(group, "margin_pct")),
     impressions |-> Len(group),
     margin_per_impression |->
         RoundDiv(SeqSum(Column(group, "margin")) * 100, Len(group)),
     won_impressions |-> group]

RECURSIVE MarginRows(_, _, _)
MarginRows(keys, frame, campaigns) ==
    IF keys = <<>> THEN <<>>
    ELSE JoinCampaignInfo(MarginRow(Head(keys), Rows(frame, "campaign_id", Head(keys))),
                          campaigns, MarginInfoColumns)
         \o MarginRows(Tail(keys), frame, campaigns)

\* draws: the factors np.random.uniform returned, one per won impression.
calculate_margin_analysis(impressions_df_, campaigns_df_, draws) ==
    LET won_impressions == WonImpressions(impressions_df_)
        frame == [i \in 1..Len(won_impressions) |->
                    MarginColumns(won_impressions[i], draws[i])]
    IN  MarginRows(Sorted(Values(won_impressions, "campaign_id")), frame, campaigns_df_)

(***************************************************************************)
(* calculate_revenue_by_channel (utils.py 60-91).                          *)
(***************************************************************************)
\* The values of the grouping columns in the order groupby sorts them.
DeviceTypes == <<"CTV", "desktop", "mobile", "tablet">>
AuctionTypes == <<"PMP", "direct", "open">>
Countries == <<"AU", "BR", "CA", "DE", "FR", "JP", "UK", "US">>
Industries == <<"Automotive", "E-commerce", "Education", "Fashion", "Finance",
                "Food & Beverage", "Gaming", "Healthcare", "Technology", "Travel">>

\* won_impressions with the spend column.
WithSpend(won) ==
    [i \in 1..Len(won) |-> won[i] @@ [spend |-> ImpressionSpend(won[i].win_price)]]

\* left.merge(right[[key, col]], on=key): an inner join; a left row is kept once
\* for every right row with its key, and dropped when there is none.
RECURSIVE MergeCross(_, _, _, _)
MergeCross(left, right, key, col) ==
    IF left = <<>> THEN <<>>
    ELSE [j \in 1..Len(right) |-> (col :> right[j][col]) @@ Head(left)]
         \o MergeCross(Tail(left), right, key, col)
RECURSIVE Merge(_, _, _, _)
Merge(left, right, key, col) ==
    IF left = <<>> THEN <<>>
    ELSE LET found == Rows(right, key, Head(left)[key])
         IN  [j \in 1..Len(found) |-> (col :> found[j][col]) @@ Head(left)]
             \o Merge(Tail(left), right, key, col)

\* frame.groupby(key)['spend'].sum() as rows (channel, revenue, channel_type).
RECURSIVE ChannelRevenue(_, _, _, _)
ChannelRevenue(frame, key, order, channel_type) ==
    IF order = <<>> THEN <<>>
    ELSE LET group == Rows(frame, key, Head(order))
         IN  (IF group = <<>> THEN <<>>
              ELSE <<[channel |-> Head(order),
                      revenue |-> SeqSum(Column(group, "spend")),
                      channel_type |-> channel_type]>>)
             \o ChannelRevenue(frame, key, Tail(order), channel_type)

calculate_revenue_by_channel(impressions_df_, campaigns_df_, advertisers_df_) ==
    LET won_impressions == WithSpend(WonImpressions(impressions_df_))
        impression_with_industry ==
            Merge(Merge(won_impressions, campaigns_df_, "campaign_id", "advertiser_id"),
                  advertisers_df_, "advertiser_id", "industry")
    IN  ChannelRevenue(won_impressions, "device_type", DeviceTypes, "device")
        \o ChannelRevenue(won_impressions, "auction_type", AuctionTypes, "auction")
        \o ChannelRevenue(won_impressions, "geo_country", Countries, "geo")
        \o ChannelRevenue(impression_with_industry, "industry", Industries, "industry")

(***************************************************************************)
(* calculate_cash_flow_analysis (utils.py 176-229).                        *)
(***************************************************************************)
\* The last day of each month of the year, as a day ordinal.
MonthEnds == <<31, 59, 90, 120, 151, 181, 212, 243, 273, 304, 334, 365>>
\* timestamp.dt.to_period('M'): the month a day falls in.
MonthOf(day) == Min({m \in 1..12 : day <= MonthEnds[m]})
\* The due date counted from the first day of the following month.
DueDateFromNextMonth(month_year, terms) == MonthEnds[month_year] + 1 + terms
\* month_year.dt.end_time.dt.date + timedelta(days=terms)
DueDate(month_year, terms) == MonthEnds[month_year] + terms

\* The aging lambda of lines 198-200 and 219-221.
AgingCategory(x) ==
    IF x <= 0 THEN "current"
    ELSE IF x <= 30 THEN "30_days"
    ELSE IF x <= 60 THEN "60_days"
    ELSE "90_plus_days"

\* np.random.choice(['paid', 'outstanding'], size=n, p=...)
PaymentDraws(n) == [1..n -> {"paid", "outstanding"}]

\* due_date, days_outstanding and aging_category of a grouped row.
WithAging(row, terms, now) ==
    LET due_date == DueDate(row.month_year, terms)
    IN  row @@ [due_date |-> due_date,
                days_outstanding |-> now - due_date,
                aging_category |-> AgingCategory(now - due_date)]

\* The amount kept for the rows that are paid instead of the outstanding ones.
WithPaymentOfPaid(row, status, amount) ==
    row @@ [payment_status |-> status,
            outstanding_amount |-> IF status = "paid" THEN row[amount] ELSE 0]

\* payment_status and outstanding_amount of a row, from the drawn status.
WithPayment(row, status, amount) ==
    row @@ [payment_status |-> status,
            outstanding_amount |-> IF status = "outstanding" THEN row[amount] ELSE 0]

\* frame.groupby([key, 'month_year'])[col].sum().reset_index(): one row per
\* (key, month) present, ordered by key and month.
RECURSIVE GroupByKeyMonth(_, _, _, _)
GroupByKeyMonth(frame, key, col, pairs) ==
    IF pairs = <<>> THEN <<>>
    ELSE LET k == Head(pairs) \div 100
             m == Head(pairs) % 100
             group == SelectSeq(frame, LAMBDA r : r[key] = k /\ r.month_year = m)
         IN  <<(key :> k) @@ (col :> SeqSum(Column(group, col)))
               @@ [month_year |-> m, rows |-> group]>>
             \o GroupByKeyMonth(frame, key, col, Tail(pairs))

KeyMonthPairs(frame, key) ==
    Sorted({frame[i][key] * 100 + frame[i].month_year : i \in 1..Len(frame)})

\* won_impressions with spend and month_year.
CashFlowFrame(impressions_df_) ==
    LET won == WithSpend(WonImpressions(impressions_df_))
    IN  [i \in 1..Len(won) |-> won[i] @@ [month_year |-> MonthOf(won[i].timestamp)]]

\* The receivables table before the payment status is drawn.
ReceivablesAged(impressions_df_, campaigns_df_, advertisers_df_, now) ==
    LET impression_with_advertiser ==
            Merge(CashFlowFrame(impressions_df_), campaigns_df_,
                  "campaign_id", "advertiser_id")
        grouped == GroupByKeyMonth(impression_with_advertiser, "advertiser_id", "spend",
                                   KeyMonthPairs(impression_with_advertiser,
                                                 "advertiser_id"))
        named == Merge(grouped, advertisers_df_, "advertiser_id", "advertiser_name")
    IN  [i \in 1..Len(named) |-> WithAging(named[i], 45, now)]

\* The payables table before the payment status is drawn; draws are the
\* revenue shares np.random.uniform returned, one per won impression.
PayablesAged(impressions_df_, draws, now) ==
    LET frame == CashFlowFrame(impressions_df_)
        paid_out == [i \in 1..Len(frame) |->
                       frame[i] @@ [publisher_payout |-> Share(frame[i].spend, draws[i])]]
        grouped == GroupByKeyMonth(paid_out, "publisher_id", "publisher_payout",
                                   KeyMonthPairs(paid_out, "publisher_id"))
    IN  [i \in 1..Len(grouped) |-> WithAging(grouped[i], 30, now)]

Paid(rows, statuses, amount) ==
    [i \in 1..Len(rows) |-> WithPayment(rows[i], statuses[i], amount)]

(***************************************************************************)
(* prepare_time_series_data (utils.py 309-344).                            *)
(***************************************************************************)
DailyRow(date, won, clicks, conversions) ==
    LET group == Rows(won, "timestamp", date)
        day_clicks == Rows(clicks, "timestamp", date)
        day_conversions == Rows(conversions, "timestamp", date)
        spend == SeqSum(Column(group, "spend"))
    IN  [date |-> date,
         impressions |-> Len(group),
         spend |-> spend,
         avg_cpm |-> RoundDiv(SeqSum(Column(group, "win_price")), Len(group)),
         clicks |-> Len(day_clicks),
         click_cost |-> RoundDiv(SeqSum(Column(day_clicks, "click_cost")), 100),
         conversions |-> Len(day_conversions),
         conversion_value |-> SeqSum(Column(day_conversions, "conversion_value")),
         ctr |-> FloatDiv(Len(day_clicks) * 100 * 1000, Len(group)),
         cpc |-> Where(Len(day_clicks) > 0, FloatDiv(spend, Len(day_clicks))),
         cpa |-> Where(Len(day_conversions) > 0, FloatDiv(spend, Len(day_conversions)))]

prepare_time_series_data(impressions_df_, clicks_df_, conversions_df_) ==
    LET won_impressions == WithSpend(WonImpressions(impressions_df_))
        dates == Sorted(Values(won_impressions, "timestamp"))
    IN  [i \in 1..Len(dates) |->
            DailyRow(dates[i], won_impressions, clicks_df_, conversions_df_)]

(***************************************************************************)
(* Inputs of the engine functions.                                         *)
(***************************************************************************)
\* Campaign 1 runs five days on a ten-cent budget; campaign 2 starts and ends
\* on the same day, for which generate_campaigns computes a budget of 0;
\* campaign 3 ends the day before it starts and belongs to an advertiser
\* that advertisers_df does not hold; campaign 4 runs ten days on ten cents.
\* No campaign has id 9.
EngineAdvertisers ==
    <<Advertiser(1, "Acme", "Finance"), Advertiser(2, "Bolt", "Gaming")>>
EngineCampaigns ==
    <<Campaign(1, 1, 1, 5, 10, "active"),
      Campaign(2, 2, 1, 1, 0, "completed"),
      Campaign(3, 3, 2, 1, 20, "paused"),
      Campaign(4, 1, 1, 10, 10, "active")>>

PacingInputs ==
    {Impression(c, 1, "desktop", "open", "US", 1, w, "won") :
        c \in {1, 2, 3, 4, 9}, w \in {400, 1000, 3000}}
    \cup {Impression(1, 2, "desktop", "open", "US", 1, 1000, "won"),
          Impression(1, 1, "desktop", "open", "US", 1, 3000, "lost")}

\* The days on which the clock is read: those that put a January row, due on
\* day 76 as a receivable and on day 61 as a payable, at and around each
\* boundary of the aging tiers.
AgingProbes == {-1, 0, 30, 31, 60, 61, 90, 91}
ClockReadings ==
    {DueDate(1, terms) + d : terms \in {30, 45}, d \in AgingProbes}

(***************************************************************************)
(* Actions.                                                                *)
(***************************************************************************)
InitEngine ==
    /\ advertisers_df = EngineAdvertisers
    /\ campaigns_df = <<>>
    /\ impressions_df = <<>>
    /\ clicks_df = <<>>
    /\ conversions_df = <<>>
    /\ start_date = 0
    /\ end_date = 0
    /\ selected_advertisers = {"All"}
    /\ selected_status = {"All"}
    /\ selected_devices = {"All"}
    /\ page = "Campaign Overview"
    /\ filtered_impressions = <<>>
    /\ filtered_campaigns = EngineCampaigns
    /\ filtered_clicks = <<>>
    /\ filtered_conversions = <<>>
    /\ metrics_df = <<>>
    /\ revenue_data = <<>>
    /\ margin_data = <<>>
    /\ pacing_data = <<>>
    /\ receivables = <<>>
    /\ payables = <<>>
    /\ daily_data = <<>>
    /\ cash_flow = <<>>
    /\ total_revenue = 0
    /\ cache = <<>>
    /\ generated = 0
    /\ runs = 0
    /\ returned = <<>>
    /\ environ = <<>>
    /\ steps = <<>>
    /\ exit_status = <<>>
    /\ current_date = Min(ClockReadings)
    /\ pc = "args"

\* One more row of the impressions table an engine function is called with.
PassImpression(inputs) ==
    /\ pc = "args"
    /\ Len(filtered_impressions) < MaxImpressions
    /\ \E r \in inputs : filtered_impressions' = Append(filtered_impressions, r)
    /\ UNCHANGED <<src, sel, filtered_campaigns, filtered_clicks,
                   filtered_conversions, out, current_date, pc,
                   total_revenue, session, host>>

CallPacing ==
    /\ pc \in {"args", "done"}
    /\ pacing_data' = calculate_pacing_analysis(filtered_impressions, filtered_campaigns)
    /\ pc' = "done"
    /\ UNCHANGED <<src, sel, args, current_date, metrics_df, revenue_data, margin_data,
                   receivables, payables, daily_data, cash_flow,
                   total_revenue, session, host>>

MetricsInputs ==
    {Impression(c, 1, "desktop", "open", "US", 1, w, "won") :
        c \in {1, 2, 3, 9}, w \in {400, 1000}}
    \cup {Impression(1, 1, "desktop", "open", "US", 1, 1000, "lost")}
ClickInputs == {Click(0, c, 1, "desktop", 10) : c \in {1, 2}}
ConversionInputs ==
    {Conversion(0, 1, 1, 500), Conversion(0, 1, 1, 0), Conversion(0, 2, 1, 500)}

\* One more row of the clicks table; click_id is the row's position.
PassClick(inputs) ==
    /\ pc = "args"
    /\ Len(filtered_clicks) < MaxClicks
    /\ \E r \in inputs :
          filtered_clicks' =
              Append(filtered_clicks, [r EXCEPT !.click_id = Len(filtered_clicks) + 1])
    /\ UNCHANGED <<src, sel, filtered_impressions, filtered_campaigns,
                   filtered_conversions, out, current_date, pc,
                   total_revenue, session, host>>

PassConversion(inputs) ==
    /\ pc = "args"
    /\ Len(filtered_conversions) < MaxConversions
    /\ \E r \in inputs :
          filtered_conversions' =
              Append(filtered_conversions,
                     [r EXCEPT !.conversion_id = Len(filtered_conversions) + 1])
    /\ UNCHANGED <<src, sel, filtered_impressions, filtered_campaigns,
                   filtered_clicks, out, current_date, pc,
                   total_revenue, session, host>>

CallBasicMetrics ==
    /\ pc \in {"args", "done"}
    /\ metrics_df' = calculate_basic_metrics(filtered_impressions, filtered_clicks,
                                             filtered_conversions, filtered_campaigns)
    /\ pc' = "done"
    /\ UNCHANGED <<src, sel, args, current_date, revenue_data, margin_data, pacing_data,
                   receivables, payables, daily_data, cash_flow,
                   total_revenue, session, host>>

\* Win prices at both ends of what generate_impressions produces (0.35 to 14.25).
MarginInputs ==
    {Impression(c, 1, "desktop", "open", "US", 1, w, "won") :
        c \in {1, 2, 9}, w \in {35, 1000}}
    \cup {Impression(1, 1, "desktop", "open", "US", 1, 1000, "lost")}

CallMargin ==
    /\ pc = "args" \/ (pc = "done" /\ margin_data = <<>>)
    /\ \E draws \in UniformDraws(Len(WonImpressions(filtered_impressions))) :
          margin_data' =
              calculate_margin_analysis(filtered_impressions, filtered_campaigns, draws)
    /\ pc' = "done"
    /\ UNCHANGED <<src, sel, args, current_date, metrics_df, revenue_data, pacing_data,
                   receivables, payables, daily_data, cash_flow,
                   total_revenue, session, host>>

RevenueInputs ==
    {Impression(c, 1, dev, auc, geo, 1, 1000, "won") :
        c \in {1, 2, 3, 9}, dev \in {"desktop", "mobile"},
        auc \in {"open", "PMP"}, geo \in {"US", "CA"}}
    \cup {Impression(1, 1, "mobile", "open", "US", 1, 3000, "won"),
          Impression(1, 1, "desktop", "open", "US", 1, 1000, "lost")}

CallRevenue ==
    /\ pc \in {"args", "done"}
    /\ revenue_data' = calculate_revenue_by_channel(filtered_impressions,
                                                    filtered_campaigns, advertisers_df)
    /\ pc' = "done"
    /\ UNCHANGED <<src, sel, args, current_date, metrics_df, margin_data, pacing_data,
                   receivables, payables, daily_data, cash_flow,
                   total_revenue, session, host>>

\* January and February impressions of two advertisers and two publishers.
CashFlowInputs ==
    {Impression(1, 15, "desktop", "open", "US", 1, 1000, "won"),
     Impression(2, 40, "desktop", "open", "US", 2, 1000, "won"),
     Impression(1, 15, "desktop", "open", "US", 1, 6000, "won"),
     Impression(1, 15, "desktop", "open", "US", 1, 1000, "lost")}

\* datetime.now() moves on to a later reading.
Tick ==
    /\ pc = "args"
    /\ \E d \in ClockReadings : d > current_date /\ current_date' = d
    /\ UNCHANGED <<src, sel, args, out, pc,
                   total_revenue, session, host>>

CallCashFlow ==
    /\ pc = "args"
    /\ LET n == Len(WonImpressions(filtered_impressions))
           aged == ReceivablesAged(filtered_impressions, filtered_campaigns,
                                   advertisers_df, current_date)
       IN  \E draws \in UniformDraws(n) :
             LET owed == PayablesAged(filtered_impressions, draws, current_date)
             IN  \E r \in PaymentDraws(Len(aged)), p \in PaymentDraws(Len(owed)) :
                   /\ receivables' = Paid(aged, r, "spend")
                   /\ payables' = Paid(owed, p, "publisher_payout")
    /\ pc' = "done"
    /\ UNCHANGED <<src, sel, args, current_date, metrics_df, revenue_data,
                   margin_data, pacing_data, daily_data, cash_flow,
                   total_revenue, session, host>>

\* The engine functions called directly, each on the inputs that exercise it.
NextPacing == PassImpression(PacingInputs) \/ CallPacing
SpecPacing == InitEngine /\ [][NextPacing]_vars

NextMetrics ==
    \/ PassImpression(MetricsInputs)
    \/ PassClick(ClickInputs)
    \/ PassConversion(ConversionInputs)
    \/ CallBasicMetrics
    \/ CallPacing
SpecMetrics == InitEngine /\ [][NextMetrics]_vars

\* The three per-campaign functions on campaigns that have clicks, conversions,
\* a budget and lost impressions, with and without won impressions.
NoWonInputs ==
    {Impression(1, 1, "desktop", "open", "US", 1, 1000, "lost"),
     Impression(1, 1, "desktop", "open", "US", 1, 1000, "won"),
     Impression(2, 1, "desktop", "open", "US", 1, 1000, "won"),
     Impression(4, 2, "mobile", "open", "US", 1, 400, "won")}
NextNoWon ==
    \/ PassImpression(NoWonInputs)
    \/ PassClick({Click(0, 1, 1, "desktop", 100)})
    \/ PassConversion({Conversion(0, 1, 1, 500)})
    \/ CallBasicMetrics
    \/ CallMargin
    \/ CallPacing
SpecNoWon == InitEngine /\ [][NextNoWon]_vars

NextMargin == PassImpression(MarginInputs) \/ CallMargin
SpecMargin == InitEngine /\ [][NextMargin]_vars

NextRevenue == PassImpression(RevenueInputs) \/ CallRevenue
SpecRevenue == InitEngine /\ [][NextRevenue]_vars

NextCashFlow == PassImpression(CashFlowInputs) \/ Tick \/ CallCashFlow
SpecCashFlow == InitEngine /\ [][NextCashFlow]_vars

(***************************************************************************)
(* The dashboard script (app.py 74-164 and the page branches).             *)
(***************************************************************************)
\* A dataset as generate_campaign_data returns it: every campaign belongs to
\* an advertiser, every impression to a campaign and lies in its date range,
\* the click derives from the first won impression, the first conversion
\* from that click a day later, the second from the second won impression.
AppCampaigns ==
    <<Campaign(1, 1, 1, 5, 10, "active"), Campaign(2, 2, 1, 3, 20, "completed")>>
AppImpressions ==
    <<Impression(1, 1, "desktop", "open", "US", 1, 1000, "won"),
      Impression(2, 2, "mobile", "PMP", "CA", 2, 1000, "won"),
      Impression(1, 2, "desktop", "open", "US", 1, 1000, "lost"),
      Impression(2, 3, "mobile", "open", "US", 2, 3000, "lost")>>
AppClicks == <<Click(1, 1, 1, "desktop", 100)>>
AppConversions == <<Conversion(1, 1, 2, 500), Conversion(2, 2, 3, 0)>>

\* The dictionary generate_all_data returns (the creatives table is read by
\* no later step and is left out).
AppDataset ==
    [advertisers |-> EngineAdvertisers, campaigns |-> AppCampaigns,
     impressions |-> AppImpressions, clicks |-> AppClicks,
     conversions |-> AppConversions]

InitApp ==
    /\ advertisers_df = EngineAdvertisers
    /\ campaigns_df = AppCampaigns
    /\ impressions_df = AppImpressions
    /\ clicks_df = AppClicks
    /\ conversions_df = AppConversions
    /\ start_date = 0
    /\ end_date = 0
    /\ selected_advertisers = {"All"}
    /\ selected_status = {"All"}
    /\ selected_devices = {"All"}
    /\ page = "Campaign Overview"
    /\ filtered_impressions = <<>>
    /\ filtered_campaigns = <<>>
    /\ filtered_clicks = <<>>
    /\ filtered_conversions = <<>>
    /\ metrics_df = <<>>
    /\ revenue_data = <<>>
    /\ margin_data = <<>>
    /\ pacing_data = <<>>
    /\ receivables = <<>>
    /\ payables = <<>>
    /\ daily_data = <<>>
    /\ cash_flow = <<>>
    /\ total_revenue = 0
    /\ cache = AppDataset
    /\ generated = 1
    /\ runs = 1
    /\ returned = <<>>
    /\ environ = <<>>
    /\ steps = <<>>
    /\ exit_status = <<>>
    /\ current_date = Max(ClockReadings)
    /\ pc = "loaded"

\* impressions_df['date'] = impressions_df['timestamp'].dt.date
WithDate(impressions) ==
    [i \in 1..Len(impressions) |-> impressions[i] @@ [date |-> impressions[i].timestamp]]

\* What the sidebar widgets offer.
Pages == {"Campaign Overview", "Revenue Analysis", "Margin & Pacing",
          "Cash Flow Analysis"}
DateRanges ==
    LET dates == Values(WithDate(impressions_df), "date")
    IN  {<<s, e>> \in (Min(dates)..Max(dates)) \X (Min(dates)..Max(dates)) : s <= e}
AdvertiserOptions == {"All"} \cup Values(advertisers_df, "advertiser_name")
StatusOptions == {"All"} \cup Values(campaigns_df, "status")
DeviceOptions == {"All"} \cup Values(impressions_df, "device_type")

\* The campaign filters with 'All' honoured only when it is selected alone.
FilterCampaignsAllAlone(campaigns, advertisers, chosen_advertisers, chosen_status) ==
    LET advertiser_ids ==
            Values(SelectSeq(advertisers,
                             LAMBDA a : a.advertiser_name \in chosen_advertisers),
                   "advertiser_id")
        by_advertiser ==
            IF chosen_advertisers # {"All"}
            THEN SelectSeq(campaigns, LAMBDA c : c.advertiser_id \in advertiser_ids)
            ELSE campaigns
    IN  IF chosen_status # {"All"}
        THEN SelectSeq(by_advertiser, LAMBDA c : c.status \in chosen_status)
        ELSE by_advertiser

\* The filter stage, lines 143-164.
FilterCampaigns(campaigns, advertisers, chosen_advertisers, chosen_status) ==
    LET advertiser_ids ==
            Values(SelectSeq(advertisers,
                             LAMBDA a : a.advertiser_name \in chosen_advertisers),
                   "advertiser_id")
        by_advertiser ==
            IF "All" \notin chosen_advertisers
            THEN SelectSeq(campaigns, LAMBDA c : c.advertiser_id \in advertiser_ids)
            ELSE campaigns
    IN  IF "All" \notin chosen_status
        THEN SelectSeq(by_advertiser, LAMBDA c : c.status \in chosen_status)
        ELSE by_advertiser

FilterImpressions(impressions, s, e, chosen_devices, campaign_ids) ==
    LET by_date == SelectSeq(impressions, LAMBDA r : r.date >= s /\ r.date <= e)
        by_device ==
            IF "All" \notin chosen_devices
            THEN SelectSeq(by_date, LAMBDA r : r.device_type \in chosen_devices)
            ELSE by_date
    IN  SelectSeq(by_device, LAMBDA r : r.campaign_id \in campaign_ids)

FilterByCampaign(df, campaign_ids) ==
    SelectSeq(df, LAMBDA r : r.campaign_id \in campaign_ids)

\* The Monthly Cash Flow trend (app.py 478-486): spend and publisher_payout
\* summed by month, outer-merged on the month with 0 for a month one side
\* lacks, and net_flow = spend - publisher_payout.  The month column is the
\* month_year as a string, which groups as the month_year does.
MonthlyCashFlow(receivables_, payables_) ==
    LET months == Sorted(Values(receivables_, "month_year")
                         \cup Values(payables_, "month_year"))
    IN  [i \in 1..Len(months) |->
            LET spend == SeqSum(Column(Rows(receivables_, "month_year", months[i]),
                                       "spend"))
                publisher_payout ==
                    SeqSum(Column(Rows(payables_, "month_year", months[i]),
                                  "publisher_payout"))
            IN  [month |-> months[i], spend |-> spend,
                 publisher_payout |-> publisher_payout,
                 net_flow |-> spend - publisher_payout]]

\* The page branch of lines 167-535: the engine calls of one page; the tables
\* of the other pages do not exist in this run of the script.
RenderOverview ==
    /\ metrics_df' = calculate_basic_metrics(filtered_impressions', filtered_clicks',
                                             filtered_conversions', filtered_campaigns')
    /\ daily_data' = prepare_time_series_data(filtered_impressions', filtered_clicks',
                                              filtered_conversions')
    /\ revenue_data' = <<>> /\ margin_data' = <<>> /\ pacing_data' = <<>>
    /\ receivables' = <<>> /\ payables' = <<>> /\ total_revenue' = 0
    /\ cash_flow' = <<>>

RenderRevenue ==
    /\ revenue_data' = calculate_revenue_by_channel(filtered_impressions',
                                                    filtered_campaigns', advertisers_df')
    /\ total_revenue' = SeqSum(Column(revenue_data', "revenue"))
    /\ metrics_df' = <<>> /\ daily_data' = <<>> /\ margin_data' = <<>>
    /\ pacing_data' = <<>> /\ receivables' = <<>> /\ payables' = <<>>
    /\ cash_flow' = <<>>

RenderMarginPacing ==
    /\ \E draws \in UniformDraws(Len(WonImpressions(filtered_impressions'))) :
          margin_data' = calculate_margin_analysis(filtered_impressions',
                                                   filtered_campaigns', draws)
    /\ pacing_data' = calculate_pacing_analysis(filtered_impressions',
                                                filtered_campaigns')
    /\ metrics_df' = <<>> /\ daily_data' = <<>> /\ revenue_data' = <<>>
    /\ receivables' = <<>> /\ payables' = <<>> /\ total_revenue' = 0
    /\ cash_flow' = <<>>

RenderCashFlow ==
    /\ LET n == Len(WonImpressions(filtered_impressions'))
           aged == ReceivablesAged(filtered_impressions', filtered_campaigns',
                                   advertisers_df', current_date)
       IN  \E draws \in UniformDraws(n) :
             LET owed == PayablesAged(filtered_impressions', draws, current_date)
             IN  \E r \in PaymentDraws(Len(aged)), p \in PaymentDraws(Len(owed)) :
                   /\ receivables' = Paid(aged, r, "spend")
                   /\ payables' = Paid(owed, p, "publisher_payout")
    /\ cash_flow' = MonthlyCashFlow(receivables', payables')
    /\ metrics_df' = <<>> /\ daily_data' = <<>> /\ revenue_data' = <<>>
    /\ margin_data' = <<>> /\ pacing_data' = <<>> /\ total_revenue' = 0

\* What st.sidebar.date_input returns for a range: the pair once both ends
\* are picked, a one-element tuple while only the first end is.
DateInputValues ==
    DateRanges \cup {<<d>> : d \in Values(WithDate(impressions_df), "date")}

\* One run of the script for one state of the sidebar widgets.  A date_range
\* that is no pair is assigned whole to start_date and end_date (line 116);
\* the comparison of the date column with it at line 144 raises, and the run
\* ends there.
Rerun ==
    /\ pc = "loaded"
    /\ UNCHANGED <<advertisers_df, campaigns_df, clicks_df, conversions_df, current_date,
                   session, host>>
    /\ impressions_df' = WithDate(impressions_df)
    /\ \E date_range \in DateInputValues, advertisers \in SUBSET AdvertiserOptions,
          status \in SUBSET StatusOptions, devices \in SUBSET DeviceOptions :
          /\ start_date' = IF Len(date_range) = 2 THEN date_range[1] ELSE date_range
          /\ end_date' = IF Len(date_range) = 2 THEN date_range[2] ELSE date_range
          /\ selected_advertisers' = advertisers
          /\ selected_status' = status
          /\ selected_devices' = devices
          /\ \/ /\ Len(date_range) = 2
                /\ filtered_campaigns' =
                      FilterCampaigns(campaigns_df, advertisers_df, advertisers, status)
                /\ filtered_impressions' =
                      FilterImpressions(impressions_df', start_date', end_date',
                                        selected_devices',
                                        Values(filtered_campaigns', "campaign_id"))
                /\ filtered_clicks' =
                      FilterByCampaign(clicks_df,
                                       Values(filtered_campaigns', "campaign_id"))
                /\ filtered_conversions' =
                      FilterByCampaign(conversions_df,
                                       Values(filtered_campaigns', "campaign_id"))
                /\ \/ page' = "Campaign Overview" /\ RenderOverview
                   \/ page' = "Revenue Analysis" /\ RenderRevenue
                   \/ page' = "Margin & Pacing" /\ RenderMarginPacing
                   \/ page' = "Cash Flow Analysis" /\ RenderCashFlow
                /\ pc' = "rendered"
             \/ /\ Len(date_range) # 2
                /\ page' \in Pages
                /\ UNCHANGED <<args, out, total_revenue>>
                /\ pc' = "exception"

NextApp == Rerun
SpecApp == InitApp /\ [][NextApp]_vars

(***************************************************************************)
(* calculate_pacing_analysis over several days of a campaign.              *)
(***************************************************************************)
MaxDays == 3

\* A campaign of budget 10,000.00 over 10 days, one of 3.00 over 3 days and
\* one of 3.00 over 2,001 days.
ScenarioCampaigns ==
    <<Campaign(5, 1, 1, 10, 1000000, "active"), Campaign(6, 2, 1, 3, 300, "active"),
      Campaign(7, 2, 1, 2001, 300, "active")>>

\* Won impressions of spend 1,666.67, 1,666.66 and 2,004.00 (campaign 5) and
\* of spend 0.01 and 1.00 (campaign 6) and 0.01 (campaign 7); the day is set
\* when the row is passed.
ScenarioInputs ==
    {Impression(5, 0, "desktop", "open", "US", 1, 166667000, "won"),
     Impression(5, 0, "desktop", "open", "US", 1, 166666000, "won"),
     Impression(5, 0, "desktop", "open", "US", 1, 200400000, "won"),
     Impression(6, 0, "desktop", "open", "US", 1, 1000, "won"),
     Impression(6, 0, "desktop", "open", "US", 1, 100000, "won"),
     Impression(7, 0, "desktop", "open", "US", 1, 1000, "won")}

InitScenario ==
    /\ advertisers_df = EngineAdvertisers
    /\ campaigns_df = <<>>
    /\ impressions_df = <<>>
    /\ clicks_df = <<>>
    /\ conversions_df = <<>>
    /\ start_date = 0
    /\ end_date = 0
    /\ selected_advertisers = {"All"}
    /\ selected_status = {"All"}
    /\ selected_devices = {"All"}
    /\ page = "Margin & Pacing"
    /\ filtered_impressions = <<>>
    /\ filtered_campaigns = ScenarioCampaigns
    /\ filtered_clicks = <<>>
    /\ filtered_conversions = <<>>
    /\ metrics_df = <<>>
    /\ revenue_data = <<>>
    /\ margin_data = <<>>
    /\ pacing_data = <<>>
    /\ receivables = <<>>
    /\ payables = <<>>
    /\ daily_data = <<>>
    /\ cash_flow = <<>>
    /\ total_revenue = 0
    /\ cache = <<>>
    /\ generated = 0
    /\ runs = 0
    /\ returned = <<>>
    /\ environ = <<>>
    /\ steps = <<>>
    /\ exit_status = <<>>
    /\ current_date = Min(ClockReadings)
    /\ pc = "args"

\* One more row of the impressions table, served on the day after the last row.
PassDailyImpression(inputs) ==
    /\ pc = "args"
    /\ Len(filtered_impressions) < MaxDays
    /\ \E r \in inputs :
          filtered_impressions' =
              Append(filtered_impressions,
                     [r EXCEPT !.timestamp = Len(filtered_impressions) + 1])
    /\ UNCHANGED <<src, sel, filtered_campaigns, filtered_clicks,
                   filtered_conversions, out, total_revenue, session, host, current_date, pc>>

NextScenario == PassDailyImpression(ScenarioInputs) \/ CallPacing
SpecScenario == InitScenario /\ [][NextScenario]_vars

(***************************************************************************)
(* A session: the script run again and again in one process                *)
(* (app.py 46-85 and the rest of the script).                              *)
(***************************************************************************)
MaxReruns == 3

\* Another dataset generate_campaign_data can return.
AltDataset ==
    [advertisers |-> EngineAdvertisers, campaigns |-> AppCampaigns,
     impressions |-> <<Impression(1, 1, "desktop", "open", "US", 1, 1000, "won"),
                       Impression(2, 3, "mobile", "PMP", "CA", 2, 3000, "lost")>>,
     clicks |-> AppClicks,
     conversions |-> <<Conversion(1, 1, 2, 500)>>]
\* A dataset with won impressions in January and in February.
TrendDataset ==
    [advertisers |-> EngineAdvertisers,
     campaigns |-> <<Campaign(1, 1, 1, 40, 10000, "active"),
                     Campaign(2, 2, 1, 3, 20, "completed")>>,
     impressions |-> <<Impression(1, 15, "desktop", "open", "US", 1, 6000, "won"),
                       Impression(1, 40, "mobile", "PMP", "CA", 2, 9000, "won"),
                       Impression(2, 2, "desktop", "open", "US", 1, 1000, "lost")>>,
     clicks |-> <<Click(1, 1, 15, "desktop", 600)>>,
     conversions |-> <<Conversion(1, 1, 16, 500)>>]
Datasets == {AppDataset, AltDataset, TrendDataset}

\* @st.cache_data on a function without arguments: the entry, once stored,
\* is found by every later call.
CacheNeverHit(entry) == FALSE
CacheHit(entry) == entry # <<>>

InitSession ==
    /\ advertisers_df = <<>>
    /\ campaigns_df = <<>>
    /\ impressions_df = <<>>
    /\ clicks_df = <<>>
    /\ conversions_df = <<>>
    /\ start_date = 0
    /\ end_date = 0
    /\ selected_advertisers = {"All"}
    /\ selected_status = {"All"}
    /\ selected_devices = {"All"}
    /\ page = "Campaign Overview"
    /\ filtered_impressions = <<>>
    /\ filtered_campaigns = <<>>
    /\ filtered_clicks = <<>>
    /\ filtered_conversions = <<>>
    /\ metrics_df = <<>>
    /\ revenue_data = <<>>
    /\ margin_data = <<>>
    /\ pacing_data = <<>>
    /\ receivables = <<>>
    /\ payables = <<>>
    /\ daily_data = <<>>
    /\ cash_flow = <<>>
    /\ total_revenue = 0
    /\ cache = <<>>
    /\ generated = 0
    /\ runs = 0
    /\ returned = <<>>
    /\ environ = <<>>
    /\ steps = <<>>
    /\ exit_status = <<>>
    /\ current_date = Max(ClockReadings)
    /\ pc = "start"

\* One run of the whole script: load_campaign_data (from the cache when it
\* has the entry), the sidebar with the full date range and all devices or
\* one device type, the filters and the selected page.
ScriptRun ==
    /\ pc \in {"start", "rendered"}
    /\ runs < MaxReruns
    /\ runs' = runs + 1
    /\ IF CacheHit(cache)
       THEN UNCHANGED <<cache, generated>>
       ELSE /\ \E data \in Datasets : cache' = data
            /\ generated' = generated + 1
    /\ advertisers_df' = cache'.advertisers
    /\ campaigns_df' = cache'.campaigns
    /\ impressions_df' = WithDate(cache'.impressions)
    /\ clicks_df' = cache'.clicks
    /\ conversions_df' = cache'.conversions
    /\ start_date' = Min(Values(impressions_df', "date"))
    /\ end_date' = Max(Values(impressions_df', "date"))
    /\ selected_advertisers' = {"All"}
    /\ selected_status' = {"All"}
    /\ selected_devices' \in {{"All"}, {"mobile"}, {"desktop"}}
    /\ filtered_campaigns' =
          FilterCampaigns(campaigns_df', advertisers_df', selected_advertisers',
                          selected_status')
    /\ filtered_impressions' =
          FilterImpressions(impressions_df', start_date', end_date', selected_devices',
                            Values(filtered_campaigns', "campaign_id"))
    /\ filtered_clicks' =
          FilterByCampaign(clicks_df', Values(filtered_campaigns', "campaign_id"))
    /\ filtered_conversions' =
          FilterByCampaign(conversions_df', Values(filtered_campaigns', "campaign_id"))
    /\ \/ page' = "Campaign Overview" /\ RenderOverview
       \/ page' = "Revenue Analysis" /\ RenderRevenue
       \/ page' = "Margin & Pacing" /\ RenderMarginPacing
       \/ page' = "Cash Flow Analysis" /\ RenderCashFlow
    /\ pc' = "rendered"
    /\ UNCHANGED <<host, current_date>>

NextSession == ScriptRun
SpecSession == InitSession /\ [][NextSession]_vars

(***************************************************************************)
(* CampaignDataGenerator.generate_campaigns (data_generator.py 57-83).     *)
(***************************************************************************)
MaxCampaigns == 2

\* The generator's window, scaled to three days: a campaign starts on day 1
\* or 2 (2020-01-01 .. 2024-06-30) and ends between its start and day 3
\* (.. 2024-12-31), both ends included.
StartDays == {1, 2}
LastDay == 3
\* Draws of random.uniform(100, 10000), in cents, and both ends of
\* random.uniform(0.8, 1.2), in thousandths.
DailyBudgets == {10000, 500000}
BudgetVariances == {800, 1200}
CampaignStatuses == {"active", "paused", "completed"}

\* round(daily_budget * duration_days * variance, 2)
TotalBudget(daily_budget, duration_days, variance) ==
    RoundDiv(daily_budget * duration_days * variance, 1000)

InitGenerator ==
    /\ advertisers_df = EngineAdvertisers
    /\ campaigns_df = <<>>
    /\ impressions_df = <<>>
    /\ clicks_df = <<>>
    /\ conversions_df = <<>>
    /\ start_date = 0
    /\ end_date = 0
    /\ selected_advertisers = {"All"}
    /\ selected_status = {"All"}
    /\ selected_devices = {"All"}
    /\ page = "Campaign Overview"
    /\ filtered_impressions = <<>>
    /\ filtered_campaigns = <<>>
    /\ filtered_clicks = <<>>
    /\ filtered_conversions = <<>>
    /\ metrics_df = <<>>
    /\ revenue_data = <<>>
    /\ margin_data = <<>>
    /\ pacing_data = <<>>
    /\ receivables = <<>>
    /\ payables = <<>>
    /\ daily_data = <<>>
    /\ cash_flow = <<>>
    /\ total_revenue = 0
    /\ cache = <<>>
    /\ generated = 0
    /\ runs = 0
    /\ returned = <<>>
    /\ environ = <<>>
    /\ steps = <<>>
    /\ exit_status = <<>>
    /\ current_date = Max(ClockReadings)
    /\ pc = "generating"

\* One pass of the loop of generate_campaigns: the next campaign.
GenerateCampaign ==
    /\ pc = "generating"
    /\ Len(campaigns_df) < MaxCampaigns
    /\ \E a \in 1..Len(advertisers_df), start \in StartDays,
          daily_budget \in DailyBudgets, variance \in BudgetVariances,
          status \in CampaignStatuses :
          \E end \in start..LastDay :
             campaigns_df' =
                Append(campaigns_df,
                       Campaign(Len(campaigns_df) + 1, advertisers_df[a].advertiser_id,
                                start, end,
                                TotalBudget(daily_budget, end - start, variance),
                                status))
    /\ UNCHANGED <<advertisers_df, impressions_df, clicks_df, conversions_df, sel, args,
                   out, total_revenue, session, host, current_date, pc>>

NextGenerator == GenerateCampaign
SpecGenerator == InitGenerator /\ [][NextGenerator]_vars

(***************************************************************************)
(* generate_campaign_data, run in one fresh process after another          *)
(* (data_generator.py 8-12 and 40-260).                                    *)
(***************************************************************************)
MaxProcesses == 2

\* What random, numpy.random and Faker put out after random.seed(42),
\* np.random.seed(42) and Faker.seed(42): the import of the module seeds the
\* three at the start of every process, so each process reads the same
\* stream from its first element.  A stream read past its end starts again.
RandomStream == <<0, 1, 0, 1, 0, 2, 0, 1, 1, 0, 0, 0, 2, 1, 1, 4, 1, 0, 1, 1, 1, 1, 1, 2, 0>>
NumpyStream == <<0, 1, 0, 0, 0, 1, 1>>
FakerStream == <<0, 2, 1, 0, 0, 2, 1>>
At(stream, k) == stream[((k - 1) % Len(stream)) + 1]

\* random.choice and DataFrame.sample(1) on the draw r.
Choice(options, r) == options[(r % Len(options)) + 1]

\* uuid.uuid4() reads os.urandom, which no seed reaches.
Uuids == {"uuid-a", "uuid-b"}

\* generate_campaigns on the seeded streams (data_generator.py 57-83).
SeededCampaign(i) ==
    LET advertiser == Choice(EngineAdvertisers, At(NumpyStream, i))
        start == Choice(Sorted(StartDays), At(FakerStream, 2 * i - 1))
        end == start + (At(FakerStream, 2 * i) % (LastDay - start + 1))
        daily_budget == Choice(Sorted(DailyBudgets), At(RandomStream, 3 * i - 2))
        variance == Choice(Sorted(BudgetVariances), At(RandomStream, 3 * i - 1))
        status == Choice(<<"active", "paused", "completed">>, At(RandomStream, 3 * i))
    IN  Campaign(i, advertiser.advertiser_id, start, end,
                 TotalBudget(daily_budget, end - start, variance), status)
SeededCampaigns == [i \in 1..MaxCampaigns |-> SeededCampaign(i)]

\* generate_creatives (data_generator.py 85-102), one creative a campaign.
SeededCreatives ==
    [i \in 1..MaxCampaigns |->
        [creative_id |-> i, campaign_id |-> SeededCampaigns[i].campaign_id,
         creative_type |-> Choice(<<"banner", "video", "native">>,
                                  At(RandomStream, 3 * MaxCampaigns + i))]]

\* One pass of the loop of generate_impressions (data_generator.py 110-153):
\* the row is Impression(...) with its creative_id and bid_request_id.
SeededImpression(i, uuid) ==
    LET campaign == Choice(SeededCampaigns, At(NumpyStream, MaxCampaigns + i))
        creative == Rows(SeededCreatives, "campaign_id", campaign.campaign_id)[1]
        timestamp == campaign.start_date
                     + (At(FakerStream, 2 * MaxCampaigns + i)
                        % (campaign.end_date - campaign.start_date + 1))
        r == 4 * MaxCampaigns + 4 * (i - 1)
        bid_price == Choice(<<50, 1000, 1500>>, At(RandomStream, r + 1))
        factor == Choice(<<700, 950>>, At(RandomStream, r + 2))
        device == Choice(<<"desktop", "mobile", "tablet", "CTV">>, At(RandomStream, r + 3))
        outcome == Choice(<<"won", "lost", "lost", "lost">>, At(RandomStream, r + 4))
    IN  Impression(campaign.campaign_id, timestamp, device, "open", "US", 1,
                   RoundDiv(bid_price * factor, 1000), outcome)
        @@ [creative_id |-> creative.creative_id, bid_request_id |-> uuid]
SeededImpressions(uuids) ==
    [i \in 1..MaxImpressions |-> SeededImpression(i, uuids[i])]

\* DataFrame.sample(n) on the draw r: the first n rows of the frame turned
\* by r places.
Sample(df, n, r) ==
    [i \in 1..n |-> df[((i - 1 + r) % Len(df)) + 1]]

\* int(len(frame) * random.uniform(low, high)), the rate in thousandths.  The
\* rates are scaled up to the tables: at 0.1% to 3% a table of two rows
\* would never get a click.
SampleSize(frame, rate) == (Len(frame) * rate) \div 1000
ClickRates == <<500, 1000>>
ConversionRates == <<1000, 500>>

\* generate_clicks (data_generator.py 157-183); the click falls on the day
\* of its impression or, within the hour, on the next.
SeededClicks(impressions, uuids) ==
    LET won == WonImpressions(impressions)
        r == 4 * MaxCampaigns + 4 * MaxImpressions
        num_clicks == SampleSize(won, Choice(ClickRates, At(RandomStream, r + 1)))
        clicked == Sample(won, num_clicks, At(NumpyStream, MaxCampaigns + MaxImpressions + 1))
    IN  [k \in 1..num_clicks |->
            Click(uuids[MaxImpressions + k], clicked[k].campaign_id,
                  clicked[k].timestamp + (At(RandomStream, r + 1 + k) % 2),
                  clicked[k].device_type, RoundDiv(clicked[k].win_price, 10))
            @@ [impression_id |-> k, creative_id |-> clicked[k].creative_id]]

\* generate_conversions (data_generator.py 185-235), the click-through loop
\* and then the view-through loop.
SeededConversions(impressions, clicks, uuids) ==
    LET won == WonImpressions(impressions)
        r == 4 * MaxCampaigns + 4 * MaxImpressions + 1 + Len(clicks)
        n == MaxCampaigns + MaxImpressions + 1
        u == MaxImpressions + Len(clicks)
        click_conversions ==
            SampleSize(clicks, Choice(ConversionRates, At(RandomStream, r + 1)))
        converting_clicks == Sample(clicks, click_conversions, At(NumpyStream, n + 1))
        through ==
            [k \in 1..click_conversions |->
                Conversion(uuids[u + k], converting_clicks[k].campaign_id,
                           converting_clicks[k].timestamp + (At(RandomStream, r + 2 * k) % 8),
                           Choice(<<0, 1000, 50000>>, At(RandomStream, r + 2 * k + 1)))
                @@ [click_id |-> converting_clicks[k].click_id]]
        r2 == r + 1 + 2 * click_conversions
        view_conversions ==
            SampleSize(won, Choice(ConversionRates, At(RandomStream, r2 + 1)))
        converting_impressions == Sample(won, view_conversions, At(NumpyStream, n + 2))
        view ==
            [k \in 1..view_conversions |->
                Conversion(uuids[u + click_conversions + k],
                           converting_impressions[k].campaign_id,
                           converting_impressions[k].timestamp
                           + (At(RandomStream, r2 + 2 * k) % 31),
                           Choice(<<0, 500, 20000>>, At(RandomStream, r2 + 2 * k + 1)))
                @@ [click_id |-> "None"]]
    IN  through \o view

\* The number of calls of uuid.uuid4() in one run: no table of the model has
\* more rows than impressions_df.
UuidCalls == 3 * MaxImpressions

\* generate_all_data (data_generator.py 237-255) on the seeded streams and on
\* the identifiers uuid4 hands out.
SeededDataset(uuids) ==
    LET impressions == SeededImpressions(uuids)
        clicks == SeededClicks(impressions, uuids)
    IN  [advertisers |-> EngineAdvertisers, campaigns |-> SeededCampaigns,
         creatives |-> SeededCreatives, impressions |-> impressions,
         clicks |-> clicks,
         conversions |-> SeededConversions(impressions, clicks, uuids)]

InitProcesses ==
    /\ advertisers_df = <<>>
    /\ campaigns_df = <<>>
    /\ impressions_df = <<>>
    /\ clicks_df = <<>>
    /\ conversions_df = <<>>
    /\ start_date = 0
    /\ end_date = 0
    /\ selected_advertisers = {"All"}
    /\ selected_status = {"All"}
    /\ selected_devices = {"All"}
    /\ page = "Campaign Overview"
    /\ filtered_impressions = <<>>
    /\ filtered_campaigns = <<>>
    /\ filtered_clicks = <<>>
    /\ filtered_conversions = <<>>
    /\ metrics_df = <<>>
    /\ revenue_data = <<>>
    /\ margin_data = <<>>
    /\ pacing_data = <<>>
    /\ receivables = <<>>
    /\ payables = <<>>
    /\ daily_data = <<>>
    /\ cash_flow = <<>>
    /\ total_revenue = 0
    /\ cache = <<>>
    /\ generated = 0
    /\ runs = 0
    /\ returned = <<>>
    /\ environ = <<>>
    /\ steps = <<>>
    /\ exit_status = <<>>
    /\ current_date = Max(ClockReadings)
    /\ pc = "start"

\* A fresh process imports data_generator, which seeds the three generators,
\* and calls generate_campaign_data once.
generate_campaign_data ==
    /\ Len(returned) < MaxProcesses
    /\ \E uuids \in [1..UuidCalls -> Uuids] :
          returned' = Append(returned, SeededDataset(uuids))
    /\ UNCHANGED <<src, sel, args, out, total_revenue, session, environ, steps,
                   exit_status, current_date, pc>>

NextProcesses == generate_campaign_data
SpecProcesses == InitProcesses /\ [][NextProcesses]_vars

(***************************************************************************)
(* The dashboard script on a dataset of the generator.                     *)
(***************************************************************************)
\* One dataset generate_campaign_data returns: both impressions are won by
\* campaign 1, on desktop on day 1 and on mobile on day 3, and each of the
\* two clicks derives from one of them.
GeneratedDataset ==
    SeededDataset([k \in 1..UuidCalls |-> IF k % 2 = 1 THEN "uuid-a" ELSE "uuid-b"])

InitGenerated ==
    /\ advertisers_df = GeneratedDataset.advertisers
    /\ campaigns_df = GeneratedDataset.campaigns
    /\ impressions_df = GeneratedDataset.impressions
    /\ clicks_df = GeneratedDataset.clicks
    /\ conversions_df = GeneratedDataset.conversions
    /\ start_date = 0
    /\ end_date = 0
    /\ selected_advertisers = {"All"}
    /\ selected_status = {"All"}
    /\ selected_devices = {"All"}
    /\ page = "Campaign Overview"
    /\ filtered_impressions = <<>>
    /\ filtered_campaigns = <<>>
    /\ filtered_clicks = <<>>
    /\ filtered_conversions = <<>>
    /\ metrics_df = <<>>
    /\ revenue_data = <<>>
    /\ margin_data = <<>>
    /\ pacing_data = <<>>
    /\ receivables = <<>>
    /\ payables = <<>>
    /\ daily_data = <<>>
    /\ cash_flow = <<>>
    /\ total_revenue = 0
    /\ cache = GeneratedDataset
    /\ generated = 1
    /\ runs = 1
    /\ returned = <<GeneratedDataset>>
    /\ environ = <<>>
    /\ steps = <<>>
    /\ exit_status = <<>>
    /\ current_date = Max(ClockReadings)
    /\ pc = "loaded"

SpecGenerated == InitGenerated /\ [][NextApp]_vars

(***************************************************************************)
(* entrypoint.py: main and the two functions it calls.                     *)
(***************************************************************************)
\* os.environ when the process starts: with or without the variable the
\* Databricks runtime sets, with or without a port, an address and a headless
\* setting of the caller.
StartEnvirons ==
    LET caller == [k \in {"DATABRICKS_RUNTIME_VERSION", "STREAMLIT_SERVER_PORT",
                          "STREAMLIT_SERVER_HEADLESS", "STREAMLIT_SERVER_ADDRESS"} |->
                      IF k = "DATABRICKS_RUNTIME_VERSION" THEN "13.3"
                      ELSE IF k = "STREAMLIT_SERVER_PORT" THEN "9000"
                      ELSE IF k = "STREAMLIT_SERVER_ADDRESS" THEN "127.0.0.1"
                      ELSE "false"]
    IN  {[k \in keys |-> caller[k]] : keys \in SUBSET DOMAIN caller}

\* The assignments of setup_environment (entrypoint.py 20-29).
StreamlitSettings ==
    [k \in {"STREAMLIT_SERVER_HEADLESS", "STREAMLIT_SERVER_PORT",
            "STREAMLIT_BROWSER_GATHER_USAGE_STATS", "STREAMLIT_SERVER_ENABLE_CORS",
            "STREAMLIT_SERVER_ENABLE_XSRF_PROTECTION"} |->
        IF k = "STREAMLIT_SERVER_HEADLESS" THEN "true"
        ELSE IF k = "STREAMLIT_SERVER_PORT" THEN "8501"
        ELSE "false"]

\* The packages install_requirements imports, in its order; "" when every
\* import succeeds, else the first that fails.
Packages == {"streamlit", "pandas", "plotly", "faker"}

\* How a child process (pip, streamlit) ends for subprocess.check_call and
\* subprocess.run(check=True): it returns 0, it returns another status
\* (CalledProcessError), or the user interrupts it (KeyboardInterrupt).
ChildOutcomes == {"returned", "CalledProcessError", "KeyboardInterrupt"}

\* The status of a process that ends in an exception nothing catches: 1, and
\* the status of the interrupt signal for a KeyboardInterrupt.
UncaughtStatus(exception) == IF exception = "KeyboardInterrupt" THEN 130 ELSE 1

\* Every exception of the launch caught with sys.exit(0).
LaunchStatusAlwaysZero(outcome) == 0

\* The except clauses of main (entrypoint.py 82-87), and the return of main
\* when streamlit returns 0.
LaunchStatus(outcome) == IF outcome = "CalledProcessError" THEN 1 ELSE 0

Step(name, outcome, detail) == [step |-> name, outcome |-> outcome, detail |-> detail]

InitEntrypoint ==
    /\ advertisers_df = <<>>
    /\ campaigns_df = <<>>
    /\ impressions_df = <<>>
    /\ clicks_df = <<>>
    /\ conversions_df = <<>>
    /\ start_date = 0
    /\ end_date = 0
    /\ selected_advertisers = {"All"}
    /\ selected_status = {"All"}
    /\ selected_devices = {"All"}
    /\ page = "Campaign Overview"
    /\ filtered_impressions = <<>>
    /\ filtered_campaigns = <<>>
    /\ filtered_clicks = <<>>
    /\ filtered_conversions = <<>>
    /\ metrics_df = <<>>
    /\ revenue_data = <<>>
    /\ margin_data = <<>>
    /\ pacing_data = <<>>
    /\ receivables = <<>>
    /\ payables = <<>>
    /\ daily_data = <<>>
    /\ cash_flow = <<>>
    /\ total_revenue = 0
    /\ cache = <<>>
    /\ generated = 0
    /\ runs = 0
    /\ returned = <<>>
    /\ environ \in StartEnvirons
    /\ steps = <<>>
    /\ exit_status = <<>>
    /\ current_date = Max(ClockReadings)
    /\ pc = "main"

\* setup_environment (entrypoint.py 16-31).
setup_environment ==
    /\ pc = "main"
    /\ LET databricks == "DATABRICKS_RUNTIME_VERSION" \in DOMAIN environ
           address == IF databricks THEN {"STREAMLIT_SERVER_ADDRESS"} ELSE {}
       IN  environ' = [k \in DOMAIN environ \cup DOMAIN StreamlitSettings \cup address |->
                          IF k \in address THEN "0.0.0.0"
                          ELSE IF k \in DOMAIN StreamlitSettings THEN StreamlitSettings[k]
                          ELSE environ[k]]
    /\ steps' = Append(steps, Step("setup_environment", "returned", ""))
    /\ pc' = "install"
    /\ UNCHANGED exit_status
    /\ UNCHANGED <<src, sel, args, out, total_revenue, session, returned, current_date>>

\* install_requirements (entrypoint.py 33-47): nothing to do when the four
\* imports succeed, else pip, whose failure or interruption nothing catches.
install_requirements ==
    /\ pc = "install"
    /\ \/ /\ steps' = Append(steps, Step("install_requirements", "returned", ""))
          /\ pc' = "check"
          /\ UNCHANGED exit_status
       \/ \E missing \in Packages, pip \in ChildOutcomes :
             /\ steps' = Append(steps, Step("install_requirements", pip, missing))
             /\ IF pip = "returned"
                THEN pc' = "check" /\ UNCHANGED exit_status
                ELSE pc' = "exited" /\ exit_status' = <<UncaughtStatus(pip)>>
    /\ UNCHANGED environ
    /\ UNCHANGED <<src, sel, args, out, total_revenue, session, returned, current_date>>

\* The existence check of app.py next to the script (entrypoint.py 60-65).
check_app_path ==
    /\ pc = "check"
    /\ \E exists \in BOOLEAN :
          IF exists
          THEN /\ steps' = Append(steps, Step("exists", "returned", "found"))
               /\ pc' = "launch"
               /\ UNCHANGED exit_status
          ELSE /\ steps' = Append(steps, Step("exists", "returned", "not found"))
               /\ pc' = "exited"
               /\ exit_status' = <<1>>
    /\ UNCHANGED environ
    /\ UNCHANGED <<src, sel, args, out, total_revenue, session, returned, current_date>>

\* The launch of Streamlit (entrypoint.py 70-87); subprocess.run returns when
\* the child has ended, with the status 1 or 2 where it failed.
launch_streamlit ==
    /\ pc = "launch"
    /\ \E outcome \in ChildOutcomes, status \in {"1", "2"} :
          /\ steps' = Append(steps, Step("streamlit", outcome,
                                         IF outcome = "CalledProcessError"
                                         THEN status ELSE ""))
          /\ exit_status' = <<LaunchStatus(outcome)>>
    /\ pc' = "exited"
    /\ UNCHANGED environ
    /\ UNCHANGED <<src, sel, args, out, total_revenue, session, returned, current_date>>

NextEntrypoint ==
    setup_environment \/ install_requirements \/ check_app_path \/ launch_streamlit
SpecEntrypoint == InitEntrypoint /\ [][NextEntrypoint]_vars

(***************************************************************************)
(* Claims.                                                                 *)
(***************************************************************************)
Range(s) == {s[i] : i \in 1..Len(s)}

\* budget_spent_pct - time_elapsed_pct of a pacing row compared with k points,
\* on the unrounded percentages: the sign of (difference - k).
PacingDiffSign(r, k) ==
    LET b == r.budget_spent_raw
        t == r.time_elapsed_raw
        d == b[1] * t[2] - t[1] * b[2] - k * b[2] * t[2]
    IN  IF d > 0 THEN 1 ELSE IF d < 0 THEN -1 ELSE 0

\* C2: every row of calculate_pacing_analysis is 'ahead' iff budget_spent_pct -
\* time_elapsed_pct > 10, 'behind' iff the difference is < -10, and 'on_pace'
\* otherwise; a difference of exactly +10 or -10 is 'on_pace'.
C2_PacingStatusRule ==
    \A r \in Range(pacing_data) :
        /\ r.pacing_status = "ahead" <=> PacingDiffSign(r, 10) = 1
        /\ r.pacing_status = "behind" <=> PacingDiffSign(r, -10) = -1
        /\ r.pacing_status = "on_pace" <=>
              (PacingDiffSign(r, 10) # 1 /\ PacingDiffSign(r, -10) # -1)

\* Rows at both boundaries have been produced, each 'on_pace'.
C2_Witness ==
    /\ \E r \in Range(pacing_data) :
          PacingDiffSign(r, 10) = 0 /\ r.pacing_status = "on_pace"
    /\ \E r \in Range(pacing_data) :
          PacingDiffSign(r, -10) = 0 /\ r.pacing_status = "on_pace"

\* C3: in calculate_basic_metrics each of ctr, cpc, cpa, roas and
\* conversion_rate is a finite number, and is 0 whenever its denominator
\* (impressions, clicks, conversions, spend, clicks) is 0; a campaign without
\* conversions has cpa = 0 and roas = 0.  In calculate_pacing_analysis the
\* percentages are 0 when budget_total or the campaign duration is 0.
C3_ZeroDenominatorGivesZero ==
    /\ \A r \in Range(metrics_df) :
          /\ IsNum(r.ctr) /\ IsNum(r.cpc) /\ IsNum(r.cpa)
          /\ IsNum(r.roas) /\ IsNum(r.conversion_rate)
          /\ r.impressions_served = 0 => r.ctr = Num(0)
          /\ r.clicks = 0 => r.cpc = Num(0) /\ r.conversion_rate = Num(0)
          /\ r.conversions = 0 => r.cpa = Num(0) /\ r.roas = Num(0)
          /\ r.spend = 0 => r.roas = Num(0)
    /\ \A r \in Range(pacing_data) :
          /\ r.budget_total = 0 => r.budget_spent_pct = 0
          /\ r.total_days = 0 => r.time_elapsed_pct = 0

\* Rows with each zero denominator have been produced: a campaign without
\* clicks and conversions, one with conversions but no spend, and pacing rows
\* of a campaign without budget and of one without duration.
C3_Witness ==
    /\ \E r \in Range(metrics_df) : r.clicks = 0 /\ r.conversions = 0 /\ r.spend > 0
    /\ \E r \in Range(metrics_df) : r.spend = 0 /\ r.conversions > 0
    /\ \E r \in Range(pacing_data) : r.budget_total = 0 /\ r.budget_spent_pct = 0
    /\ \E r \in Range(pacing_data) : r.total_days = 0 /\ r.time_elapsed_pct = 0

\* The summed win_price and the number of the won impressions of campaign c
\* in the table handed to the engine.
WonPriceSum(c) ==
    SeqSum([i \in 1..Len(filtered_impressions) |->
              IF /\ filtered_impressions[i].campaign_id = c
                 /\ filtered_impressions[i].impression_outcome = "won"
              THEN filtered_impressions[i].win_price ELSE 0])
WonCount(c) ==
    Cardinality({i \in 1..Len(filtered_impressions) :
                    /\ filtered_impressions[i].campaign_id = c
                    /\ filtered_impressions[i].impression_outcome = "won"})
Abs(x) == IF x < 0 THEN -x ELSE x

\* C4 as stated: spend is exactly sum(win_price) x count / 1000.
C4_SpendExactlyBatch ==
    \A r \in Range(metrics_df) :
        r.spend * 1000 = WonPriceSum(r.campaign_id) * WonCount(r.campaign_id)

\* C4, amended: for every campaign with a won impression the reported spend
\* is sum(win_price) x count / 1000 of the campaign's won impressions, computed
\* once per group and rounded to the nearest cent.
C4_SpendIsRoundedBatch ==
    pc = "done" /\ metrics_df # <<>> =>
        /\ \A i \in 1..Len(filtered_impressions) :
              filtered_impressions[i].impression_outcome = "won" =>
                 \E r \in Range(metrics_df) :
                     r.campaign_id = filtered_impressions[i].campaign_id
        /\ \A r \in Range(metrics_df) :
              2 * Abs(r.spend * 1000
                      - WonPriceSum(r.campaign_id) * WonCount(r.campaign_id)) <= 1000

\* A campaign with two won impressions, where the batch-level figure differs
\* from the sum of the per-impression spends, and where it is not a whole cent.
C4_Witness ==
    \E r \in Range(metrics_df) :
        /\ r.impressions_served = 2
        /\ WonPriceSum(r.campaign_id) * 2 % 1000 # 0
        /\ r.spend # GroupSpendPerRow(Rows(WonImpressions(filtered_impressions),
                                           "campaign_id", r.campaign_id))

\* The per-impression rows behind the margin table.
MarginImpressions ==
    UNION {Range(margin_data[i].won_impressions) : i \in 1..Len(margin_data)}

ChannelTotal(channel_type) ==
    SeqSum(Column(SelectSeq(revenue_data, LAMBDA r : r.channel_type = channel_type),
                  "revenue"))
\* The spend of all won impressions handed to the engine.
TotalWonSpend ==
    SeqSum([i \in 1..Len(filtered_impressions) |->
              IF filtered_impressions[i].impression_outcome = "won"
              THEN RoundDiv(filtered_impressions[i].win_price, 1000) ELSE 0])
ChannelTypes == {"device", "auction", "geo", "industry"}

\* C5 as stated: for any inputs each of the four groupings sums to the total
\* won spend.
C5_EveryChannelSumsToTotal ==
    pc = "done" => \A t \in ChannelTypes : ChannelTotal(t) = TotalWonSpend

\* Every won impression's campaign is in campaigns_df exactly once, and that
\* campaign's advertiser is in advertisers_df exactly once.
JoinsComplete ==
    \A i \in 1..Len(filtered_impressions) :
        filtered_impressions[i].impression_outcome = "won" =>
            LET found == Rows(filtered_campaigns, "campaign_id",
                              filtered_impressions[i].campaign_id)
            IN  /\ Len(found) = 1
                /\ Len(Rows(advertisers_df, "advertiser_id",
                            found[1].advertiser_id)) = 1

\* C5, amended: the device, auction and geo groupings always sum to the total
\* won spend; the industry grouping does when every won impression's campaign
\* is in campaigns_df exactly once and its advertiser in advertisers_df
\* exactly once (an impression without a match is dropped by the inner joins).
C5_ChannelSumsToTotalWhenJoinsComplete ==
    pc = "done" =>
        /\ \A t \in ChannelTypes \ {"industry"} : ChannelTotal(t) = TotalWonSpend
        /\ JoinsComplete => ChannelTotal("industry") = TotalWonSpend

\* Two won impressions of different devices and advertisers, all joins
\* complete, and the four groupings computed.
C5_Witness ==
    /\ pc = "done"
    /\ JoinsComplete
    /\ TotalWonSpend > 1
    /\ Cardinality({r \in Range(revenue_data) : r.channel_type = "industry"}) = 2
    /\ Cardinality({r \in Range(revenue_data) : r.channel_type = "device"}) = 2

\* The aging rule of the claim: inclusive upper bounds 0, 30 and 90.
ClaimedAging(x) ==
    IF x <= 0 THEN "current"
    ELSE IF x <= 30 THEN "30_days"
    ELSE IF x <= 90 THEN "60_days"
    ELSE "90_plus_days"

\* C1: in the receivables and in the payables table aging_category follows
\* days_outstanding with the tiers 0 -> 'current', 30 -> '30_days', 31 and
\* 90 -> '60_days', 91 -> '90_plus_days'.
C1_AgingTiers ==
    \A r \in Range(receivables) \cup Range(payables) :
        r.aging_category = ClaimedAging(r.days_outstanding)

\* The publisher_payout of each won impression behind the payables table.
PayoutImpressions ==
    UNION {Range(payables[i].rows) : i \in 1..Len(payables)}

\* C6: the publisher_payout of every won impression is between 70% and 80% of
\* the impression's spend (win_price / 1000 rounded to cents).
C6_PayoutShare ==
    \A r \in PayoutImpressions :
        /\ 70 * r.spend <= 100 * r.publisher_payout
        /\ 100 * r.publisher_payout <= 80 * r.spend

\* The campaigns the advertiser and status selections admit.
CampaignSelected(cid) ==
    \E i \in 1..Len(campaigns_df) :
        LET c == campaigns_df[i]
        IN  /\ c.campaign_id = cid
            /\ \/ "All" \in selected_advertisers
               \/ \E j \in 1..Len(advertisers_df) :
                     /\ advertisers_df[j].advertiser_id = c.advertiser_id
                     /\ advertisers_df[j].advertiser_name \in selected_advertisers
            /\ "All" \in selected_status \/ c.status \in selected_status
InDateRange(day) == start_date <= day /\ day <= end_date
DeviceSelected(device) == "All" \in selected_devices \/ device \in selected_devices

\* C8: whatever the date range, advertisers, statuses and devices selected,
\* every record of the impressions, clicks and conversions tables handed to
\* the engine has its date inside the range, its device among the selected
\* devices (where the table has a device) and its campaign with a selected
\* advertiser and status.
C8_FactTablesSatisfyFilters ==
    pc = "rendered" =>
        /\ \A r \in Range(filtered_impressions) :
              /\ InDateRange(r.timestamp)
              /\ DeviceSelected(r.device_type)
              /\ CampaignSelected(r.campaign_id)
        /\ \A r \in Range(filtered_clicks) :
              /\ InDateRange(r.timestamp)
              /\ DeviceSelected(r.device_type)
              /\ CampaignSelected(r.campaign_id)
        /\ \A r \in Range(filtered_conversions) :
              /\ InDateRange(r.timestamp)
              /\ CampaignSelected(r.campaign_id)

\* The campaigns of campaigns_df without a won impression in the input.
CampaignsWithoutWon ==
    {c \in Values(filtered_campaigns, "campaign_id") :
        ~\E i \in 1..Len(filtered_impressions) :
            /\ filtered_impressions[i].campaign_id = c
            /\ filtered_impressions[i].impression_outcome = "won"}

\* C9: a campaign of campaigns_df without a won impression in the input has
\* no row in the output of calculate_basic_metrics, calculate_margin_analysis
\* or calculate_pacing_analysis, whatever clicks, conversions or budget it has.
C9_NoWonImpressionNoRow ==
    \A c \in CampaignsWithoutWon :
        /\ c \notin Values(metrics_df, "campaign_id")
        /\ c \notin Values(margin_data, "campaign_id")
        /\ c \notin Values(pacing_data, "campaign_id")

\* Campaign 1 has a budget, a lost impression, a click and a conversion but
\* no won impression, and the three functions have returned rows for another
\* campaign.
C9_Witness ==
    /\ pc = "done"
    /\ 1 \in CampaignsWithoutWon
    /\ \E i \in 1..Len(filtered_impressions) : filtered_impressions[i].campaign_id = 1
    /\ 1 \in Values(filtered_clicks, "campaign_id")
    /\ 1 \in Values(filtered_conversions, "campaign_id")
    /\ metrics_df # <<>> /\ margin_data # <<>> /\ pacing_data # <<>>

\* The impressions table with its lost impressions removed.
WithoutLost(impressions) ==
    SelectSeq(impressions, LAMBDA r : r.impression_outcome # "lost")

\* C10: every engine function returns for the impressions table it was given
\* what it returns for the same table without its lost impressions (for the
\* functions that draw random numbers: for the same draws).
C10_LostImpressionsChangeNothing ==
    pc = "rendered" =>
        LET kept == WithoutLost(filtered_impressions)
            n == Len(kept)
        IN  /\ page = "Campaign Overview" =>
                  /\ metrics_df = calculate_basic_metrics(kept, filtered_clicks,
                                      filtered_conversions, filtered_campaigns)
                  /\ daily_data = prepare_time_series_data(kept, filtered_clicks,
                                      filtered_conversions)
            /\ page = "Revenue Analysis" =>
                  revenue_data = calculate_revenue_by_channel(kept, filtered_campaigns,
                                                              advertisers_df)
            /\ page = "Margin & Pacing" =>
                  /\ pacing_data = calculate_pacing_analysis(kept, filtered_campaigns)
                  /\ \E draws \in UniformDraws(n) :
                        margin_data = calculate_margin_analysis(kept, filtered_campaigns,
                                                                draws)
            /\ page = "Cash Flow Analysis" =>
                  LET aged == ReceivablesAged(kept, filtered_campaigns, advertisers_df,
                                              current_date)
                  IN  /\ \E r \in PaymentDraws(Len(aged)) :
                            receivables = Paid(aged, r, "spend")
                      /\ \E draws \in UniformDraws(n) :
                            LET owed == PayablesAged(kept, draws, current_date)
                            IN  \E p \in PaymentDraws(Len(owed)) :
                                  payables = Paid(owed, p, "publisher_payout")

\* The overview page computed from a won and a lost impression of campaign 1:
\* the campaign is served one impression.
C10_Witness ==
    /\ pc = "rendered"
    /\ page = "Campaign Overview"
    /\ Len(Rows(filtered_impressions, "campaign_id", 1)) = 2
    /\ \E i \in 1..Len(filtered_impressions) :
          filtered_impressions[i].impression_outcome = "lost"
    /\ \E i \in 1..Len(metrics_df) :
          metrics_df[i].campaign_id = 1 /\ metrics_df[i].impressions_served = 1
    /\ daily_data # <<>>

\* C11: the Total Revenue of the Revenue Analysis page adds no rows of
\* different channel_type: it counts the spend of each won impression handed
\* to calculate_revenue_by_channel once, i.e. it equals the total won spend.
C11_TotalRevenueCountsSpendOnce ==
    pc = "rendered" /\ page = "Revenue Analysis" => total_revenue = TotalWonSpend

\* C12: once the dataset is loaded no step adds, removes or changes a row or
\* a column of a source table: every step leaves advertisers, campaigns,
\* impressions, clicks and conversions as they are.
C12_SourceTablesImmutable == [][src' = src]_vars

\* The days with a won impression of campaign c, and the summed spend of its
\* won impressions, in the table handed to the engine.
WonDays(c) ==
    {filtered_impressions[i].timestamp : i \in
        {j \in 1..Len(filtered_impressions) :
            /\ filtered_impressions[j].campaign_id = c
            /\ filtered_impressions[j].impression_outcome = "won"}}
WonSpend(c) ==
    SeqSum([i \in 1..Len(filtered_impressions) |->
              IF /\ filtered_impressions[i].campaign_id = c
                 /\ filtered_impressions[i].impression_outcome = "won"
              THEN RoundDiv(filtered_impressions[i].win_price, 1000) ELSE 0])

\* The scenario of C13: budget 10,000.00, 10 days, 5,000.00 spent over 3 days
\* is reported as 30.0% of the time, 50.0% of the budget and 'ahead'.
PacingScenario ==
    \A r \in Range(pacing_data) :
        /\ r.budget_total = 1000000 /\ r.total_days = 10
        /\ r.total_spend = 500000 /\ r.days_active = 3
        => /\ r.time_elapsed_pct = 300
           /\ r.budget_spent_pct = 500
           /\ r.pacing_status = "ahead"

\* C13 as stated: time_elapsed_pct is exactly days with a won impression /
\* duration x 100 and budget_spent_pct exactly total spend / budget_total x 100.
C13_PacingPercentagesExact ==
    /\ \A r \in Range(pacing_data) :
          r.total_days > 0 /\ r.budget_total > 0 =>
             /\ r.time_elapsed_pct * r.total_days
                   = Cardinality(WonDays(r.campaign_id)) * 1000
             /\ r.budget_spent_pct * r.budget_total = WonSpend(r.campaign_id) * 1000
    /\ PacingScenario

\* C13, amended: the two percentages are those quotients rounded to one
\* decimal (the status is decided on the unrounded values), and the scenario
\* is reported as 30, 50 and 'ahead'.
C13_PacingPercentagesRounded ==
    /\ \A r \in Range(pacing_data) :
          r.total_days > 0 /\ r.budget_total > 0 =>
             /\ r.days_active = Cardinality(WonDays(r.campaign_id))
             /\ r.total_spend = WonSpend(r.campaign_id)
             /\ 2 * Abs(r.time_elapsed_pct * r.total_days
                        - Cardinality(WonDays(r.campaign_id)) * 1000) <= r.total_days
             /\ 2 * Abs(r.budget_spent_pct * r.budget_total
                        - WonSpend(r.campaign_id) * 1000) <= r.budget_total
    /\ PacingScenario

\* The scenario's row has been produced.
C13_Witness ==
    \E r \in Range(pacing_data) :
        /\ r.budget_total = 1000000 /\ r.total_days = 10
        /\ r.total_spend = 500000 /\ r.days_active = 3
        /\ r.time_elapsed_pct = 300 /\ r.budget_spent_pct = 500
        /\ r.pacing_status = "ahead"

\* C14 as stated: forecasted_spend is exactly total_spend / days elapsed x
\* total campaign days, and 0 when days elapsed is 0.
C14_ForecastExact ==
    \A r \in Range(pacing_data) :
        IF r.days_active = 0 THEN r.forecasted_spend = 0
        ELSE r.forecasted_spend * r.days_active = r.total_spend * r.total_days

\* C14, amended: forecasted_spend is total_spend / days elapsed x total
\* campaign days rounded to the nearest cent, and 0 when days elapsed is 0.
C14_ForecastRounded ==
    \A r \in Range(pacing_data) :
        IF r.days_active = 0 THEN r.forecasted_spend = 0
        ELSE 2 * Abs(r.forecasted_spend * r.days_active - r.total_spend * r.total_days)
                <= r.days_active

\* The 10-day campaign with 5,000.00 spent over 3 days: the projection
\* 16,666.666... is reported as 16,666.67.
C14_Witness ==
    \E r \in Range(pacing_data) :
        /\ r.total_days = 10 /\ r.days_active = 3 /\ r.total_spend = 500000
        /\ r.forecasted_spend = 1666667

\* C15 as stated: with a non-zero denominator ctr = clicks / impressions,
\* cpc = spend / clicks, cpa = spend / conversions, roas = conversion_value /
\* spend and conversion_rate = conversions / clicks, each rounded to two
\* decimals.  (ctr and conversion_rate are kept in thousandths, cpc and cpa in
\* cents, roas in hundredths.)
C15_RatiosToTwoDecimals ==
    \A r \in Range(metrics_df) :
        /\ r.impressions_served # 0 =>
              r.ctr = Num(10 * RoundDiv(r.clicks * 100, r.impressions_served))
        /\ r.clicks # 0 =>
              /\ r.cpc = Num(RoundDiv(r.spend, r.clicks))
              /\ r.conversion_rate = Num(10 * RoundDiv(r.conversions * 100, r.clicks))
        /\ r.conversions # 0 => r.cpa = Num(RoundDiv(r.spend, r.conversions))
        /\ r.spend # 0 => r.roas = Num(RoundDiv(r.conversion_value * 100, r.spend))

\* C15, amended: ctr and conversion_rate are percentages, clicks / impressions
\* x 100 and conversions / clicks x 100, rounded to three decimals; cpc, cpa
\* and roas are the stated ratios rounded to two decimals.
C15_RatiosAsReported ==
    \A r \in Range(metrics_df) :
        /\ r.impressions_served # 0 =>
              /\ IsNum(r.ctr)
              /\ 2 * Abs(r.ctr[2] * r.impressions_served - r.clicks * 100000)
                    <= r.impressions_served
        /\ r.clicks # 0 =>
              /\ IsNum(r.cpc) /\ IsNum(r.conversion_rate)
              /\ 2 * Abs(r.cpc[2] * r.clicks - r.spend) <= r.clicks
              /\ 2 * Abs(r.conversion_rate[2] * r.clicks - r.conversions * 100000)
                    <= r.clicks
        /\ r.conversions # 0 =>
              /\ IsNum(r.cpa)
              /\ 2 * Abs(r.cpa[2] * r.conversions - r.spend) <= r.conversions
        /\ r.spend # 0 =>
              /\ IsNum(r.roas)
              /\ 2 * Abs(r.roas[2] * r.spend - r.conversion_value * 100) <= r.spend

\* A campaign with 2 impressions, 1 click and 1 conversion of value 5.00 on
\* 0.03 of spend: ctr 50.000, cpc 0.03, cpa 0.03, roas 166.67, conversion
\* rate 100.000.
C15_Witness ==
    \E r \in Range(metrics_df) :
        /\ r.impressions_served = 2 /\ r.clicks = 1 /\ r.conversions = 1
        /\ r.spend = 3 /\ r.conversion_value = 500
        /\ r.ctr = Num(50000) /\ r.cpc = Num(3) /\ r.cpa = Num(3)
        /\ r.roas = Num(16667) /\ r.conversion_rate = Num(100000)

\* C16: in every receivables row outstanding_amount is the row's spend when
\* payment_status is 'outstanding' and 0 when 'paid'; in every payables row
\* it is publisher_payout when 'outstanding' and 0 when 'paid'; so the total
\* outstanding amount of a table never exceeds its total spend or payout.
C16_OutstandingAmount ==
    /\ \A r \in Range(receivables) :
          /\ r.payment_status \in {"paid", "outstanding"}
          /\ r.payment_status = "outstanding" => r.outstanding_amount = r.spend
          /\ r.payment_status = "paid" => r.outstanding_amount = 0
    /\ \A r \in Range(payables) :
          /\ r.payment_status \in {"paid", "outstanding"}
          /\ r.payment_status = "outstanding" =>
                r.outstanding_amount = r.publisher_payout
          /\ r.payment_status = "paid" => r.outstanding_amount = 0
    /\ SeqSum(Column(receivables, "outstanding_amount"))
          <= SeqSum(Column(receivables, "spend"))
    /\ SeqSum(Column(payables, "outstanding_amount"))
          <= SeqSum(Column(payables, "publisher_payout"))

\* Both tables hold a paid row and an outstanding row with money in it.
C16_Witness ==
    /\ \E r \in Range(receivables) :
          r.payment_status = "outstanding" /\ r.outstanding_amount > 0
    /\ \E r \in Range(receivables) : r.payment_status = "paid" /\ r.spend > 0
    /\ \E r \in Range(payables) :
          r.payment_status = "outstanding" /\ r.outstanding_amount > 0
    /\ \E r \in Range(payables) : r.payment_status = "paid" /\ r.publisher_payout > 0

\* The last day of calendar month m: the day of m whose next day is not in m.
LastDayOf(m) == CHOOSE d \in 1..365 : MonthOf(d) = m /\ (d = 365 \/ MonthOf(d + 1) # m)

\* C17: a receivables row of month M is due on the last day of M plus 45
\* days, a payables row on the last day of M plus 30 days, in both
\* days_outstanding = current date - due date; for the same month a payables
\* row is 15 days more outstanding than a receivables row.
C17_DueDates ==
    /\ \A r \in Range(receivables) :
          /\ r.due_date = LastDayOf(r.month_year) + 45
          /\ r.days_outstanding = current_date - r.due_date
    /\ \A p \in Range(payables) :
          /\ p.due_date = LastDayOf(p.month_year) + 30
          /\ p.days_outstanding = current_date - p.due_date
    /\ \A r \in Range(receivables), p \in Range(payables) :
          r.month_year = p.month_year => p.days_outstanding = r.days_outstanding + 15

\* January and February rows in both tables, read on the day the January
\* receivable falls due, when the January payable is 15 days overdue.
C17_Witness ==
    /\ \E r \in Range(receivables), p \in Range(payables) :
          /\ r.month_year = 1 /\ p.month_year = 1
          /\ r.due_date = 76 /\ p.due_date = 61
          /\ r.days_outstanding = 0 /\ p.days_outstanding = 15
    /\ \E r \in Range(receivables), p \in Range(payables) :
          r.month_year = 2 /\ p.month_year = 2

\* The distinct campaign_ids with a won impression in the table handed to the
\* engine.
WonCampaignIds ==
    {filtered_impressions[i].campaign_id : i \in
        {j \in 1..Len(filtered_impressions) :
            filtered_impressions[j].impression_outcome = "won"}}

\* C18: calculate_basic_metrics returns exactly one row for each distinct
\* campaign_id with a won impression and no other row; the campaign attributes
\* are left-joined: a campaign_id missing from campaigns_df keeps its row, with
\* empty attributes, and a campaign_id present carries its campaign's.
C18_OneRowPerWonCampaign ==
    pc = "done" /\ metrics_df # <<>> =>
        /\ \A c \in WonCampaignIds :
              Cardinality({i \in 1..Len(metrics_df) : metrics_df[i].campaign_id = c}) = 1
        /\ \A r \in Range(metrics_df) :
              /\ r.campaign_id \in WonCampaignIds
              /\ r.impressions_served = WonCount(r.campaign_id)
              /\ LET found == Rows(filtered_campaigns, "campaign_id", r.campaign_id)
                 IN  IF found = <<>>
                     THEN /\ r.budget_total = NaN /\ r.advertiser_id = NaN
                          /\ r.status = "NaN"
                     ELSE /\ r.budget_total = Num(found[1].budget_total)
                          /\ r.advertiser_id = Num(found[1].advertiser_id)
                          /\ r.status = found[1].status

\* Won impressions of campaign 9, which campaigns_df does not have, and of
\* campaign 1: two rows, the first with campaign 1's attributes, the second
\* with empty ones.
C18_Witness ==
    /\ pc = "done"
    /\ Len(metrics_df) = 2
    /\ metrics_df[1].campaign_id = 1 /\ metrics_df[1].status = "active"
    /\ metrics_df[2].campaign_id = 9 /\ metrics_df[2].status = "NaN"
    /\ metrics_df[2].budget_total = NaN

\* The tables a run works on are those of the cache entry (the impressions
\* with the date column the run adds).
RunsOnCachedTables ==
    pc = "rendered" =>
        /\ cache \in Datasets
        /\ advertisers_df = cache.advertisers
        /\ campaigns_df = cache.campaigns
        /\ impressions_df = WithDate(cache.impressions)
        /\ clicks_df = cache.clicks
        /\ conversions_df = cache.conversions

\* C19: over any sequence of script runs in one process generate_campaign_data
\* is invoked at most once, the cached dataset never changes once stored, and
\* every run works on its tables, the same as the first run.
C19_GeneratedOnceAndCached ==
    /\ [](generated <= 1 /\ RunsOnCachedTables)
    /\ [][cache # <<>> => cache' = cache]_vars

\* The third run of the script in the process, showing the cash flow page for
\* mobile devices, with a single generation behind it.
C19_Witness ==
    /\ pc = "rendered"
    /\ runs = 3
    /\ generated = 1
    /\ page = "Cash Flow Analysis"
    /\ selected_devices = {"mobile"}
    /\ impressions_df = WithDate(cache.impressions)

\* C20: every campaign generate_campaigns produces has end_date >= start_date
\* and budget_total > 0, one whose end_date equals its start_date included.
C20_CampaignInvariants ==
    \A c \in Range(campaigns_df) : c.end_date >= c.start_date /\ c.budget_total > 0

\* C21: two runs of generate_campaign_data, each in a fresh process, return
\* identical tables, the columns bid_request_id, click_id and conversion_id
\* included.
C21_GenerationDeterministic ==
    \A i, j \in 1..Len(returned) : returned[i] = returned[j]

\* The part of C21 that the seeds do reach: every column but the uuid4
\* identifiers.
C21_SeededColumnsDeterministic ==
    \A i, j \in 1..Len(returned) :
        /\ returned[i].advertisers = returned[j].advertisers
        /\ returned[i].campaigns = returned[j].campaigns
        /\ returned[i].creatives = returned[j].creatives
        /\ Len(returned[i].impressions) = Len(returned[j].impressions)
        /\ Len(returned[i].clicks) = Len(returned[j].clicks)
        /\ Len(returned[i].conversions) = Len(returned[j].conversions)
        /\ \A k \in 1..Len(returned[i].impressions) :
              [returned[i].impressions[k] EXCEPT !.bid_request_id = ""]
              = [returned[j].impressions[k] EXCEPT !.bid_request_id = ""]
        /\ \A k \in 1..Len(returned[i].clicks) :
              [returned[i].clicks[k] EXCEPT !.click_id = ""]
              = [returned[j].clicks[k] EXCEPT !.click_id = ""]
        /\ \A k \in 1..Len(returned[i].conversions) :
              [returned[i].conversions[k] EXCEPT !.conversion_id = "", !.click_id = ""]
              = [returned[j].conversions[k] EXCEPT !.conversion_id = "", !.click_id = ""]

\* C22: on the generated dataset, whatever the date range, the devices, the
\* advertisers and the statuses selected, every row of the Campaign Overview
\* page has clicks <= impressions_served, that is ctr <= 100 (percent, here
\* in thousandths).
C22_ClicksWithinImpressions ==
    (pc = "rendered" /\ page = "Campaign Overview") =>
        \A r \in Range(metrics_df) :
            /\ r.clicks <= r.impressions_served
            /\ r.ctr[2] <= 100 * 1000

\* The reported budget_spent_pct less the reported time_elapsed_pct, in tenths
\* of a point.
ReportedDifference(r) == r.budget_spent_pct - r.time_elapsed_pct

\* C23: in every row of calculate_pacing_analysis the pacing_status is the
\* one the rule gives on the row's reported, one-decimal budget_spent_pct and
\* time_elapsed_pct: 'ahead' iff the difference is > 10, 'behind' iff it is
\* < -10, 'on_pace' otherwise.
C23_StatusOfReportedPercentages ==
    \A r \in Range(pacing_data) :
        r.pacing_status = (IF ReportedDifference(r) > 100 THEN "ahead"
                           ELSE IF ReportedDifference(r) < -100 THEN "behind"
                           ELSE "on_pace")

\* C23 as the code has it: the status is decided before the rounding, so a
\* reported difference above 10 is 'ahead', one below -10 is 'behind', one
\* strictly between is 'on_pace', and a reported difference of exactly 10
\* (-10) is 'ahead' ('behind') or 'on_pace'.
C23_StatusWithinRounding ==
    \A r \in Range(pacing_data) :
        /\ ReportedDifference(r) > 100 => r.pacing_status = "ahead"
        /\ ReportedDifference(r) < -100 => r.pacing_status = "behind"
        /\ r.pacing_status = "ahead" => ReportedDifference(r) >= 100
        /\ r.pacing_status = "behind" => ReportedDifference(r) <= -100

\* A row that reports 20.0 against 10.0 and is 'ahead' (20.04 before the
\* rounding), next to a row well inside 'behind'.
C23_Witness ==
    /\ \E r \in Range(pacing_data) :
          /\ r.budget_spent_pct = 200 /\ r.time_elapsed_pct = 100
          /\ r.pacing_status = "ahead"
    /\ \E r \in Range(pacing_data) :
          ReportedDifference(r) < -100 /\ r.pacing_status = "behind"

\* C24: whatever the date-range widget returns, a pair of dates or a
\* one-element tuple while the range is being picked, the run has start_date
\* and end_date as dates with start_date <= end_date and hands on exactly the
\* impressions dated within [start_date, end_date] (of the devices and
\* campaigns selected); with one date selected, exactly that day's.
C24_DateRangeFilter ==
    pc # "loaded" =>
        /\ pc = "rendered"
        /\ start_date <= end_date
        /\ \A i \in 1..Len(impressions_df) :
              LET r == impressions_df[i]
              IN  r \in Range(filtered_impressions)
                  <=> /\ InDateRange(r.date)
                      /\ DeviceSelected(r.device_type)
                      /\ r.campaign_id \in Values(filtered_campaigns, "campaign_id")

\* C25: each of the advertiser, status and device multiselects keeps every
\* record when 'All' is among its selected values, other values alongside or
\* not, and otherwise keeps exactly the records matching one of the selected
\* values; an empty selection keeps no record.
C25_MultiselectFilters ==
    pc = "rendered" =>
        /\ filtered_campaigns =
              SelectSeq(campaigns_df, LAMBDA c : CampaignSelected(c.campaign_id))
        /\ filtered_impressions =
              SelectSeq(impressions_df,
                        LAMBDA r : /\ InDateRange(r.date)
                                   /\ DeviceSelected(r.device_type)
                                   /\ r.campaign_id
                                         \in Values(filtered_campaigns, "campaign_id"))
        /\ ("All" \in selected_advertisers /\ "All" \in selected_status)
              => filtered_campaigns = campaigns_df
        /\ (selected_advertisers = {} \/ selected_status = {}) => filtered_campaigns = <<>>
        /\ selected_devices = {} => filtered_impressions = <<>>

\* 'All' selected together with one advertiser, one status selected and no
\* device: the campaigns of both advertisers pass the advertiser filter, the
\* one active campaign is left and no impression is.
C25_Witness ==
    /\ pc = "rendered"
    /\ selected_advertisers = {"All", "Acme"}
    /\ selected_status = {"active"}
    /\ selected_devices = {}
    /\ Values(campaigns_df, "advertiser_id") = {1, 2}
    /\ Values(filtered_campaigns, "status") = {"active"}
    /\ Len(filtered_campaigns) = 1
    /\ impressions_df # <<>>
    /\ filtered_impressions = <<>>

\* The campaign a pacing row is about, when its dates are in order and every
\* won impression of it that the function was given is dated within them.
WithinCampaignDates(r) ==
    \E i \in 1..Len(filtered_campaigns) :
        LET c == filtered_campaigns[i]
        IN  /\ c.campaign_id = r.campaign_id
            /\ c.end_date >= c.start_date
            /\ \A d \in WonDays(c.campaign_id) : c.start_date <= d /\ d <= c.end_date

CashFlowJoinsFind ==
    \A i \in 1..Len(filtered_impressions) :
        LET found == Rows(filtered_campaigns, "campaign_id",
                          filtered_impressions[i].campaign_id)
        IN  /\ found # <<>>
            /\ \A j \in 1..Len(found) :
                  Rows(advertisers_df, "advertiser_id", found[j].advertiser_id) # <<>>

\* C27: on the Cash Flow Analysis page, when every filtered impression's
\* campaign is in filtered_campaigns and its advertiser in advertisers_df, the
\* publisher_payout of the payables table totals, month by month, at most the
\* spend of the receivables table, and net_flow >= 0 in every month of the
\* Monthly Cash Flow trend.
C27_NetFlowNonNegative ==
    (pc = "rendered" /\ page = "Cash Flow Analysis" /\ CashFlowJoinsFind) =>
        /\ \A month \in Values(payables, "month_year") :
              SeqSum(Column(Rows(payables, "month_year", month), "publisher_payout"))
              <= SeqSum(Column(Rows(receivables, "month_year", month), "spend"))
        /\ \A i \in 1..Len(cash_flow) : cash_flow[i].net_flow >= 0

\* The trend of a January of spend 0.06 and payout 0.05 and a February of
\* spend 0.09 and payout 0.06.
C27_Witness ==
    /\ pc = "rendered"
    /\ page = "Cash Flow Analysis"
    /\ CashFlowJoinsFind
    /\ Len(filtered_impressions) = 3
    /\ cash_flow = <<[month |-> 1, spend |-> 6, publisher_payout |-> 5, net_flow |-> 1],
                     [month |-> 2, spend |-> 9, publisher_payout |-> 6, net_flow |-> 3]>>

\* C28: in every row of calculate_basic_metrics ecpm is spend /
\* (impressions_served / 1000), to the cent, of the batch-level spend; it
\* therefore is the campaign's summed win_price (total_spend_raw) up to the
\* rounding of spend to a cent, which the division by impressions_served /
\* 1000 scales, and it is the mean win price (avg_cpm) only for a campaign
\* with exactly one won impression.
C28_EcpmFromBatchSpend ==
    pc = "done" =>
        \A r \in Range(metrics_df) :
            LET n == r.impressions_served
            IN  /\ n = WonCount(r.campaign_id)
                /\ r.total_spend_raw = WonPriceSum(r.campaign_id)
                /\ 2 * Abs(r.ecpm * n - r.spend * 1000) <= n
                /\ 2 * Abs(r.ecpm * n - r.total_spend_raw * n) <= 1000 + n
                /\ r.ecpm = r.avg_cpm => n = 1

\* Two won impressions at 4.00 and 10.00: spend 0.03, ecpm 15.00 against a
\* summed win_price of 14.00 and a mean of 7.00.
C28_Witness ==
    /\ pc = "done"
    /\ \E r \in Range(metrics_df) :
          /\ r.impressions_served = 2
          /\ r.total_spend_raw = 1400
          /\ r.spend = 3
          /\ r.ecpm = 1500
          /\ r.avg_cpm = 700

\* The names of the steps main has performed, in order.
StepNames == [i \in 1..Len(steps) |-> steps[i].step]
MainOrder == <<"setup_environment", "install_requirements", "exists", "streamlit">>

\* C29: entrypoint.main performs setup_environment, install_requirements, the
\* existence check of app.py and the launch of Streamlit in this order; when
\* app.py does not exist it exits with status 1 and has not launched
\* Streamlit; when the Streamlit process fails it exits with status 1, and
\* when the user interrupts it, with status 0.
C29_MainStepsAndExitStatus ==
    /\ StepNames = SubSeq(MainOrder, 1, Len(steps))
    /\ \A i \in 1..Len(steps) :
          /\ (steps[i].step = "exists" /\ steps[i].detail = "not found") =>
                /\ pc = "exited" /\ exit_status = <<1>>
                /\ \A j \in 1..Len(steps) : steps[j].step # "streamlit"
          /\ (steps[i].step = "streamlit" /\ steps[i].outcome = "CalledProcessError") =>
                pc = "exited" /\ exit_status = <<1>>
          /\ (steps[i].step = "streamlit" /\ steps[i].outcome = "KeyboardInterrupt") =>
                pc = "exited" /\ exit_status = <<0>>
          /\ steps[i].step = "streamlit" =>
                /\ steps[i - 1] = Step("exists", "returned", "found")
                /\ \A k \in DOMAIN StreamlitSettings : environ[k] = StreamlitSettings[k]
                /\ "DATABRICKS_RUNTIME_VERSION" \in DOMAIN environ =>
                      environ["STREAMLIT_SERVER_ADDRESS"] = "0.0.0.0"

\* On Databricks, after pip has installed the missing faker, app.py is found
\* and Streamlit fails with status 2: main has exited with status 1.
C29_Witness ==
    /\ pc = "exited"
    /\ exit_status = <<1>>
    /\ "DATABRICKS_RUNTIME_VERSION" \in DOMAIN environ
    /\ steps = <<Step("setup_environment", "returned", ""),
                 Step("install_requirements", "returned", "faker"),
                 Step("exists", "returned", "found"),
                 Step("streamlit", "CalledProcessError", "2")>>

====
